---- MODULE Spec2Model ----
(***************************************************************************)
(* Model of the VS Code Settings Helper extension (gorebill/vscode-settings)*)
(*                                                                         *)
(* The repository holds two versions of the Prop. Helper code:             *)
(*   src/src/extension.ts  (the compiled entry point, with ProjectAnalyzer) *)
(*   src/unnamed/part_003  (the version with the large catalog and the      *)
(*                          whole-document JSON parse)                      *)
(* Definitions ending in _p3 model src/unnamed/part_003; the others model   *)
(* src/src/extension.ts, or code that is the same text in both files.       *)
(*                                                                         *)
(* Text is modelled as a sequence of one-character strings, a document as a *)
(* sequence of lines (vscode.TextDocument.lineAt(n).text, without the line  *)
(* terminator).  The modelled documents are built from the lines of Pool;   *)
(* they contain no backslash, no fraction and no exponent, so JSON string   *)
(* escapes and non-integer numbers are outside the modelled inputs.         *)
(***************************************************************************)
EXTENDS Integers, Sequences, FiniteSets, TLC

VARIABLES
    document,      \* lines of the text document given to getPropertyAtPosition
    position,      \* position.line, the zero-based cursor line
    property,      \* what getPropertyAtPosition of src/src/extension.ts returned
    property_p3,   \* what getPropertyAtPosition of src/unnamed/part_003 returned
    lookupKey,     \* the key last given to getConfigDocumentation
    doc,           \* what getConfigDocumentation of src/src/extension.ts returned
    doc_p3,        \* what getConfigDocumentation of src/unnamed/part_003 returned
    dirStatus,     \* what workspacePath is: a listable directory, one that
                   \* cannot be listed, no directory, or no workspace folder
    fs,            \* names of the entries directly under workspacePath
    pc,            \* index of the project type analyzeProject scores next
    listed,        \* what readdirSync gave for each project type scored so far
    tally,         \* detectedFiles and detectedPatterns of each type scored
    analysis,      \* what analyzeProject returned
    primaryType,   \* what createRecommendedSettings chose
    fsChanges,     \* how often another process changed the directory
    signature,     \* the project type given to one pass of the scoring loop
    scored,        \* what that pass computed
    filePath,      \* the path given to isConfigFile
    configFile,    \* what isConfigFile returned
    activeEditor,  \* vscode.window.activeTextEditor: its document and cursor
    showPropHelper, \* the context key vscode-settings.showPropHelper
    content,       \* HelloWorldProvider.content of src/src/extension.ts
    provider_p3,   \* the fields of HelloWorldProvider of src/unnamed/part_003
    found,         \* what the last content update of src/src/extension.ts found
    found_p3,      \* what the last content update of src/unnamed/part_003 found
    before,        \* content as it was when the last event arrived
    before_p3,     \* provider_p3 as it was when the last event arrived
    workspaceFolder, \* whether vscode.workspace.workspaceFolders has a folder
    vscodeDir,     \* the directory .vscode of the workspace folder
    disk,          \* the files of .vscode, by name
    treeItems,     \* the items the Config Files view last listed
    created,       \* the last run of vscode-settings.createConfigFile
    applied,       \* the runs of vscode-settings.applyConfigTemplate
    shownDocument, \* the file last given to showTextDocument by a command
    diskChanges    \* how often another process wrote a file of .vscode

resolverVars == <<document, position, property, property_p3>>

catalogVars == <<lookupKey, doc, doc_p3>>

analyzerVars == <<dirStatus, fs, pc, listed, tally, analysis, primaryType, fsChanges>>

scoreVars == <<signature, scored>>

pathVars == <<filePath, configFile>>

editorVars ==
    <<activeEditor, showPropHelper, content, provider_p3, found, found_p3,
      before, before_p3>>

configVars ==
    <<workspaceFolder, vscodeDir, disk, treeItems, created, applied,
      shownDocument, diskChanges>>

vars ==
    <<resolverVars, catalogVars, analyzerVars, scoreVars, pathVars, editorVars,
      configVars>>

-----------------------------------------------------------------------------
(* Characters and small helpers                                            *)

Quote == "\""

\* JavaScript \s and String.prototype.trim on the characters a line can hold
WhiteSpace == {" ", "\t"}

Min(S) == CHOOSE x \in S : \A y \in S : x <= y

\* s[i], or "" past either end
At(s, i) == IF i \in 1..Len(s) THEN s[i] ELSE ""

\* index of the first character at or after i that is not white space
SkipWhiteSpace(s, i) ==
    LET rest == {k \in i..Len(s) : s[k] \notin WhiteSpace}
    IN  IF rest = {} THEN Len(s) + 1 ELSE Min(rest)

\* index of the first quote strictly after i, 0 when there is none
NextQuote(s, i) ==
    LET rest == {k \in (i + 1)..Len(s) : s[k] = Quote}
    IN  IF rest = {} THEN 0 ELSE Min(rest)

\* String.prototype.trim
trim(s) ==
    LET keep == {k \in 1..Len(s) : s[k] \notin WhiteSpace}
    IN  IF keep = {} THEN <<>>
        ELSE SubSeq(s, Min(keep), CHOOSE x \in keep : \A y \in keep : y <= x)

\* s.replace(/,$/, '')
stripTrailingComma(s) ==
    IF Len(s) > 0 /\ s[Len(s)] = "," THEN SubSeq(s, 1, Len(s) - 1) ELSE s

NoMatch == [matched |-> FALSE]

-----------------------------------------------------------------------------
(* The two line patterns                                                   *)

\* /"([^"]+)"/ tried at start index i
keyOnlyAt(s, i) ==
    LET j == NextQuote(s, i)
    IN  IF At(s, i) = Quote /\ j > i + 1
        THEN [matched |-> TRUE, g1 |-> SubSeq(s, i + 1, j - 1), end |-> j]
        ELSE NoMatch

\* currentLineText.match(keyOnlyPattern): the leftmost start that matches
keyOnlyPattern(s) ==
    LET starts == {i \in 1..Len(s) : keyOnlyAt(s, i).matched}
    IN  IF starts = {} THEN NoMatch ELSE keyOnlyAt(s, Min(starts))

\* the fragment a greedy (.+) would take: the rest of the line
greedyValueEnd(s, p) == Len(s)

\* (.+?)(?:,\s*$|$) from index p: the shortest non-empty fragment after which
\* the rest of the line is empty, or a comma followed by white space only
lazyValueEnd(s, p) ==
    Min({e \in p..Len(s) :
            \/ e = Len(s)
            \/ /\ s[e + 1] = ","
               /\ \A k \in (e + 2)..Len(s) : s[k] \in WhiteSpace})

\* /"([^"]+)"\s*:\s*(.+?)(?:,\s*$|$)/ tried at start index i.  The second \s*
\* is greedy; when it swallows the rest of the line it gives back its last
\* character, which (.+?) then takes.
keyValueAt(s, i) ==
    LET k  == keyOnlyAt(s, i)
        c  == SkipWhiteSpace(s, k.end + 1)
        p0 == SkipWhiteSpace(s, c + 1)
        p  == IF p0 <= Len(s) THEN p0 ELSE Len(s)
    IN  IF k.matched /\ At(s, c) = ":" /\ c < Len(s)
        THEN [matched |-> TRUE, g1 |-> k.g1,
              g2 |-> SubSeq(s, p, lazyValueEnd(s, p))]
        ELSE NoMatch

\* currentLineText.match(keyValuePattern)
keyValuePattern(s) ==
    LET starts == {i \in 1..Len(s) : keyValueAt(s, i).matched}
    IN  IF starts = {} THEN NoMatch ELSE keyValueAt(s, Min(starts))

-----------------------------------------------------------------------------
(* JSON.parse, Object.keys and JSON.stringify on the modelled characters   *)

JsonWhiteSpace == {" ", "\t", "\n", "\r"}
Digits == {"0", "1", "2", "3", "4", "5", "6", "7", "8", "9"}

DigitValue(c) ==
    CASE c = "0" -> 0 [] c = "1" -> 1 [] c = "2" -> 2 [] c = "3" -> 3
      [] c = "4" -> 4 [] c = "5" -> 5 [] c = "6" -> 6 [] c = "7" -> 7
      [] c = "8" -> 8 [] c = "9" -> 9

DigitChar(n) ==
    CASE n = 0 -> "0" [] n = 1 -> "1" [] n = 2 -> "2" [] n = 3 -> "3"
      [] n = 4 -> "4" [] n = 5 -> "5" [] n = 6 -> "6" [] n = 7 -> "7"
      [] n = 8 -> "8" [] n = 9 -> "9"

Chars(str) ==
    CASE str = "null"  -> <<"n", "u", "l", "l">>
      [] str = "true"  -> <<"t", "r", "u", "e">>
      [] str = "false" -> <<"f", "a", "l", "s", "e">>
      [] str = "unknown"   -> <<"u", "n", "k", "n", "o", "w", "n">>
      [] str = "undefined" -> <<"u", "n", "d", "e", "f", "i", "n", "e", "d">>
      [] str = "configurations" ->
            <<"c", "o", "n", "f", "i", "g", "u", "r", "a", "t", "i", "o", "n", "s">>
      [] str = "tasks"  -> <<"t", "a", "s", "k", "s">>
      [] str = "length" -> <<"l", "e", "n", "g", "t", "h">>

ParseFail == [ok |-> FALSE]

RECURSIVE SkipJsonWs(_, _)
SkipJsonWs(s, i) ==
    IF At(s, i) \in JsonWhiteSpace THEN SkipJsonWs(s, i + 1) ELSE i

\* value of the digit string s[i..j]
RECURSIVE DigitsValue(_, _, _)
DigitsValue(s, i, j) ==
    IF j < i THEN 0 ELSE 10 * DigitsValue(s, i, j - 1) + DigitValue(s[j])

\* decimal digits of n >= 0
RECURSIVE NatChars(_)
NatChars(n) ==
    IF n < 10 THEN <<DigitChar(n)>> ELSE NatChars(n \div 10) \o <<DigitChar(n % 10)>>

\* a JSON string starting at the quote s[i]: it ends at the next quote and
\* holds no raw control character
ParseString(s, i) ==
    LET j == NextQuote(s, i)
    IN  IF j = 0 \/ \E k \in (i + 1)..(j - 1) : s[k] \in {"\n", "\r", "\t", "\\"}
        THEN ParseFail
        ELSE [ok |-> TRUE, v |-> [t |-> "string", s |-> SubSeq(s, i + 1, j - 1)],
              next |-> j + 1]

\* a JSON number starting at s[i]: -?(0|[1-9][0-9]*)
ParseNumber(s, i) ==
    LET neg   == At(s, i) = "-"
        b     == IF neg THEN i + 1 ELSE i
        stops == {k \in b..(Len(s) + 1) : At(s, k) \notin Digits}
        e     == Min(stops) - 1
        last  == IF s[b] = "0" THEN b ELSE e
        n     == DigitsValue(s, b, last)
    IN  IF e < b \/ At(s, last + 1) \in {".", "e", "E"}
        THEN ParseFail
        ELSE [ok |-> TRUE, v |-> [t |-> "number", n |-> IF neg THEN 0 - n ELSE n],
              next |-> last + 1]

ParseLiteral(s, i, word) ==
    IF i + Len(Chars(word)) - 1 <= Len(s)
       /\ SubSeq(s, i, i + Len(Chars(word)) - 1) = Chars(word)
    THEN [ok |-> TRUE, v |-> [t |-> word], next |-> i + Len(Chars(word))]
    ELSE ParseFail

\* obj[key] = v while parsing: a repeated key keeps its place and takes the
\* new value
PutMember(keys, vals, key, v) ==
    IF \E k \in 1..Len(keys) : keys[k] = key
    THEN [keys |-> keys,
          vals |-> [k \in 1..Len(vals) |-> IF keys[k] = key THEN v ELSE vals[k]]]
    ELSE [keys |-> Append(keys, key), vals |-> Append(vals, v)]

RECURSIVE ParseValue(_, _)
RECURSIVE ParseMembers(_, _, _, _)
RECURSIVE ParseElements(_, _, _)

\* members of an object from the key at s[i] up to the closing brace
ParseMembers(s, i, keys, vals) ==
    IF At(s, i) # Quote THEN ParseFail
    ELSE
    LET k == ParseString(s, i)
    IN  IF ~k.ok THEN ParseFail
        ELSE
        LET c == SkipJsonWs(s, k.next)
        IN  IF At(s, c) # ":" THEN ParseFail
            ELSE
            LET r == ParseValue(s, SkipJsonWs(s, c + 1))
            IN  IF ~r.ok THEN ParseFail
                ELSE
                LET m == PutMember(keys, vals, k.v.s, r.v)
                    n == SkipJsonWs(s, r.next)
                IN  CASE At(s, n) = "," ->
                            ParseMembers(s, SkipJsonWs(s, n + 1), m.keys, m.vals)
                      [] At(s, n) = "}" ->
                            [ok |-> TRUE,
                             v |-> [t |-> "object", keys |-> m.keys, vals |-> m.vals],
                             next |-> n + 1]
                      [] OTHER -> ParseFail

\* elements of an array from the value at s[i] up to the closing bracket
ParseElements(s, i, elems) ==
    LET r == ParseValue(s, i)
    IN  IF ~r.ok THEN ParseFail
        ELSE
        LET n == SkipJsonWs(s, r.next)
        IN  CASE At(s, n) = "," ->
                    ParseElements(s, SkipJsonWs(s, n + 1), Append(elems, r.v))
              [] At(s, n) = "]" ->
                    [ok |-> TRUE, v |-> [t |-> "array", elems |-> Append(elems, r.v)],
                     next |-> n + 1]
              [] OTHER -> ParseFail

ParseValue(s, i) ==
    LET c == At(s, i)
        n == SkipJsonWs(s, i + 1)
    IN  CASE c = "{" ->
                IF At(s, n) = "}"
                THEN [ok |-> TRUE, v |-> [t |-> "object", keys |-> <<>>, vals |-> <<>>],
                      next |-> n + 1]
                ELSE ParseMembers(s, n, <<>>, <<>>)
          [] c = "[" ->
                IF At(s, n) = "]"
                THEN [ok |-> TRUE, v |-> [t |-> "array", elems |-> <<>>], next |-> n + 1]
                ELSE ParseElements(s, n, <<>>)
          [] c = Quote -> ParseString(s, i)
          [] c = "-" \/ c \in Digits -> ParseNumber(s, i)
          [] c = "n" -> ParseLiteral(s, i, "null")
          [] c = "t" -> ParseLiteral(s, i, "true")
          [] c = "f" -> ParseLiteral(s, i, "false")
          [] OTHER -> ParseFail

\* JSON.parse(text): one value, white space around it, nothing else;
\* [ok |-> FALSE] stands for the SyntaxError it throws
JSONparse(text) ==
    LET r == ParseValue(text, SkipJsonWs(text, 1))
    IN  IF r.ok /\ SkipJsonWs(text, r.next) = Len(text) + 1
        THEN [ok |-> TRUE, v |-> r.v]
        ELSE ParseFail

-----------------------------------------------------------------------------
(* JavaScript values: truthiness, own keys, property access, serialization *)

\* the value as an if-condition, or as the left operand of || and &&
Truthy(v) ==
    CASE v.t = "object" -> TRUE
      [] v.t = "array"  -> TRUE
      [] v.t = "string" -> v.s # <<>>
      [] v.t = "number" -> v.n # 0
      [] v.t = "true"   -> TRUE
      [] OTHER          -> FALSE

\* a canonical array index: "0", or digits without a leading zero
IsArrayIndex(k) ==
    /\ k # <<>>
    /\ \A i \in 1..Len(k) : k[i] \in Digits
    /\ (k[1] = "0" => Len(k) = 1)

\* the members of the set S of digit strings, ascending by numeric value
RECURSIVE SortedIndexKeys(_)
SortedIndexKeys(S) ==
    IF S = {} THEN <<>>
    ELSE LET m == CHOOSE x \in S :
                    \A y \in S : DigitsValue(x, 1, Len(x)) <= DigitsValue(y, 1, Len(y))
         IN  <<m>> \o SortedIndexKeys(S \ {m})

RECURSIVE SelectNames(_)
SelectNames(keys) ==
    IF keys = <<>> THEN <<>>
    ELSE (IF IsArrayIndex(Head(keys)) THEN <<>> ELSE <<Head(keys)>>)
         \o SelectNames(Tail(keys))

\* Object.keys(v): array indices ascending, then the other keys in the order
\* they were created; the indices of an array or of a string
ObjectKeys(v) ==
    CASE v.t = "object" ->
            SortedIndexKeys({v.keys[i] : i \in {j \in 1..Len(v.keys) : IsArrayIndex(v.keys[j])}})
            \o SelectNames(v.keys)
      [] v.t = "array"  -> [i \in 1..Len(v.elems) |-> NatChars(i - 1)]
      [] v.t = "string" -> [i \in 1..Len(v.s) |-> NatChars(i - 1)]
      [] OTHER          -> <<>>

\* v.hasOwnProperty(key)
HasOwnProperty(v, key) ==
    CASE v.t = "object" -> \E i \in 1..Len(v.keys) : v.keys[i] = key
      [] v.t = "array"  ->
            \/ key = Chars("length")
            \/ \E i \in 1..Len(v.elems) : NatChars(i - 1) = key
      [] v.t = "string" ->
            \/ key = Chars("length")
            \/ \E i \in 1..Len(v.s) : NatChars(i - 1) = key
      [] OTHER          -> FALSE

Undefined == [t |-> "undefined"]

\* v[key] for an own property, undefined otherwise (no key of the modelled
\* documents names a member of a prototype)
GetProperty(v, key) ==
    CASE v.t = "object" /\ HasOwnProperty(v, key) ->
            v.vals[CHOOSE i \in 1..Len(v.keys) : v.keys[i] = key]
      [] v.t = "array" /\ key = Chars("length") ->
            [t |-> "number", n |-> Len(v.elems)]
      [] v.t = "array" /\ HasOwnProperty(v, key) ->
            v.elems[CHOOSE i \in 1..Len(v.elems) : NatChars(i - 1) = key]
      [] v.t = "string" /\ key = Chars("length") ->
            [t |-> "number", n |-> Len(v.s)]
      [] v.t = "string" /\ HasOwnProperty(v, key) ->
            [t |-> "string",
             s |-> <<v.s[CHOOSE i \in 1..Len(v.s) : NatChars(i - 1) = key]>>]
      [] OTHER -> Undefined

RECURSIVE JSONstringify(_)
RECURSIVE StringifyMembers(_, _, _)
RECURSIVE StringifyElements(_, _)

\* "k1":v1,"k2":v2 for the keys ks[i..] of the object v
StringifyMembers(v, ks, i) ==
    IF i > Len(ks) THEN <<>>
    ELSE (IF i > 1 THEN <<",">> ELSE <<>>)
         \o <<Quote>> \o ks[i] \o <<Quote, ":">>
         \o JSONstringify(GetProperty(v, ks[i]))
         \o StringifyMembers(v, ks, i + 1)

StringifyElements(elems, i) ==
    IF i > Len(elems) THEN <<>>
    ELSE (IF i > 1 THEN <<",">> ELSE <<>>)
         \o JSONstringify(elems[i])
         \o StringifyElements(elems, i + 1)

\* JSON.stringify(v), without indentation
JSONstringify(v) ==
    CASE v.t = "object" -> <<"{">> \o StringifyMembers(v, ObjectKeys(v), 1) \o <<"}">>
      [] v.t = "array"  -> <<"[">> \o StringifyElements(v.elems, 1) \o <<"]">>
      [] v.t = "string" -> <<Quote>> \o v.s \o <<Quote>>
      [] v.t = "number" ->
            IF v.n < 0 THEN <<"-">> \o NatChars(0 - v.n) ELSE NatChars(v.n)
      [] OTHER          -> Chars(v.t)

\* typeof value === 'string' ? `"${value}"` : JSON.stringify(value)
valueStr(value) ==
    IF value.t = "string" THEN <<Quote>> \o value.s \o <<Quote>>
    ELSE JSONstringify(value)

-----------------------------------------------------------------------------
(* vscode.TextDocument                                                     *)

RECURSIVE JoinLines(_, _)
JoinLines(lines, i) ==
    IF i > Len(lines) THEN <<>>
    ELSE (IF i > 1 THEN <<"\n">> ELSE <<>>) \o lines[i] \o JoinLines(lines, i + 1)

\* document.getText()
getText(lines) == JoinLines(lines, 1)

\* document.lineAt(n) throws for a line that is not in the document
lineAtThrows(lines, n) == n \notin 0..(Len(lines) - 1)

\* document.lineAt(n).text
lineAt(lines, n) == lines[n + 1]

\* text.replace(/\/\/.*$/gm, ''): from each // to the end of its line
RECURSIVE removeLineComments(_, _)
removeLineComments(s, i) ==
    IF i > Len(s) THEN <<>>
    ELSE IF s[i] = "/" /\ At(s, i + 1) = "/"
         THEN removeLineComments(s, Min({k \in i..(Len(s) + 1) : At(s, k) \in {"\n", ""}}))
         ELSE <<s[i]>> \o removeLineComments(s, i + 1)

\* text.replace(/\/\*[\s\S]*?\*\//g, ''): from each /* to the nearest */ after it
RECURSIVE removeBlockComments(_, _)
removeBlockComments(s, i) ==
    IF i > Len(s) THEN <<>>
    ELSE LET ends == {k \in (i + 2)..(Len(s) - 1) : s[k] = "*" /\ s[k + 1] = "/"}
         IN  IF s[i] = "/" /\ At(s, i + 1) = "*" /\ ends # {}
             THEN removeBlockComments(s, Min(ends) + 2)
             ELSE <<s[i]>> \o removeBlockComments(s, i + 1)

\* const cleanText = text.replace(line comments).replace(block comments)
cleanText(text) == removeBlockComments(removeLineComments(text, 1), 1)

-----------------------------------------------------------------------------
(* getPropertyAtPosition                                                   *)

Null == [kind |-> "null"]
Property(key, value) == [kind |-> "property", key |-> key, value |-> value]

\* src/src/extension.ts lines 326-339: the result read off the cursor line
lineLocal(currentLineText) ==
    LET kvMatch  == keyValuePattern(currentLineText)
        keyMatch == keyOnlyPattern(currentLineText)
    IN  IF kvMatch.matched THEN Property(kvMatch.g1, trim(kvMatch.g2))
        ELSE IF keyMatch.matched THEN Property(keyMatch.g1, Chars("undefined"))
        ELSE Null

\* a resolver whose lineAt clamps a line index to the nearest line of the
\* document where the editor's throws
getPropertyAtPositionClamped(lines, line) ==
    IF line < 0 THEN lineLocal(lineAt(lines, 0))
    ELSE IF line > Len(lines) - 1 THEN lineLocal(lineAt(lines, Len(lines) - 1))
    ELSE lineLocal(lineAt(lines, line))

\* src/src/extension.ts: the line patterns only; the catch block turns the
\* exception of lineAt into null
getPropertyAtPosition(lines, line) ==
    IF lineAtThrows(lines, line) THEN Null
    ELSE lineLocal(lineAt(lines, line))

\* valueFromLine || 'unknown'
orUnknown(valueFromLine) ==
    IF valueFromLine = <<>> THEN Chars("unknown") ELSE valueFromLine

\* for (const config of collection) { if (config && typeof config === 'object'
\*   && config.hasOwnProperty(keyFromLine)) ... }: the first such element, 0 if none
firstOwner(collection, keyFromLine) ==
    LET owners == {i \in 1..Len(collection.elems) :
                      /\ collection.elems[i].t \in {"object", "array"}
                      /\ HasOwnProperty(collection.elems[i], keyFromLine)}
    IN  IF owners = {} THEN 0 ELSE Min(owners)

\* jsonObject.name && Array.isArray(jsonObject.name)
isArrayProperty(jsonObject, name) ==
    GetProperty(jsonObject, Chars(name)).t = "array"

\* src/unnamed/part_003 lines 1665-1699, the body of if (jsonObject && keyFromLine)
structuralValue_p3(jsonObject, keyFromLine, valueFromLine) ==
    IF HasOwnProperty(jsonObject, keyFromLine)
    THEN Property(keyFromLine, valueStr(GetProperty(jsonObject, keyFromLine)))
    ELSE IF /\ isArrayProperty(jsonObject, "configurations")
            /\ firstOwner(GetProperty(jsonObject, Chars("configurations")), keyFromLine) # 0
    THEN LET configurations == GetProperty(jsonObject, Chars("configurations"))
             config == configurations.elems[firstOwner(configurations, keyFromLine)]
         IN  Property(keyFromLine, valueStr(GetProperty(config, keyFromLine)))
    ELSE IF /\ isArrayProperty(jsonObject, "tasks")
            /\ firstOwner(GetProperty(jsonObject, Chars("tasks")), keyFromLine) # 0
    THEN LET tasks == GetProperty(jsonObject, Chars("tasks"))
             task  == tasks.elems[firstOwner(tasks, keyFromLine)]
         IN  Property(keyFromLine, valueStr(GetProperty(task, keyFromLine)))
    ELSE Property(keyFromLine, orUnknown(valueFromLine))

\* src/unnamed/part_003 lines 1701-1711: Object.keys(jsonObject)[0]
firstKeyFallback_p3(jsonObject) ==
    LET keys == ObjectKeys(jsonObject)
    IN  IF Truthy(jsonObject) /\ keys # <<>> /\ keys[1] # <<>>
        THEN Property(keys[1], valueStr(GetProperty(jsonObject, keys[1])))
        ELSE Null

\* src/unnamed/part_003 lines 1628-1646: keyFromLine and valueFromLine, with
\* haveKey for keyFromLine !== null
lineLocal_p3(currentLineText) ==
    LET kvMatch  == keyValuePattern(currentLineText)
        keyMatch == keyOnlyPattern(currentLineText)
    IN  IF kvMatch.matched
        THEN [haveKey |-> TRUE, keyFromLine |-> kvMatch.g1,
              valueFromLine |-> stripTrailingComma(trim(kvMatch.g2))]
        ELSE IF keyMatch.matched
        THEN [haveKey |-> TRUE, keyFromLine |-> keyMatch.g1,
              valueFromLine |-> Chars("unknown")]
        ELSE [haveKey |-> FALSE]

\* the whole-document parse placed first, its failure ending the call
parseFirst_p3(lines, line) ==
    IF lineAtThrows(lines, line) THEN Null
    ELSE
    LET l      == lineLocal_p3(lineAt(lines, line))
        parsed == JSONparse(cleanText(getText(lines)))
    IN  IF ~parsed.ok THEN Null
        ELSE IF l.haveKey THEN Property(l.keyFromLine, orUnknown(l.valueFromLine))
        ELSE firstKeyFallback_p3(parsed.v)

\* src/unnamed/part_003: the line patterns, an early return when they give a
\* key, then the whole-document parse.  The inner catch returns null for a
\* SyntaxError of JSON.parse, the outer one for the exception of lineAt.
getPropertyAtPosition_p3(lines, line) ==
    IF lineAtThrows(lines, line) THEN Null
    ELSE
    LET text   == getText(lines)
        l      == lineLocal_p3(lineAt(lines, line))
        parsed == JSONparse(cleanText(text))
    IN  IF l.haveKey THEN Property(l.keyFromLine, orUnknown(l.valueFromLine))
        ELSE IF ~parsed.ok THEN Null
        ELSE IF Truthy(parsed.v) /\ l.haveKey
             THEN structuralValue_p3(parsed.v, l.keyFromLine, l.valueFromLine)
        ELSE firstKeyFallback_p3(parsed.v)

-----------------------------------------------------------------------------
(* Inputs of the resolver                                                  *)

\* the longest modelled document, in lines
MaxLines == 2

\* the lines the modelled documents are made of
Pool == {
    <<"{">>,   \* {
    <<"}">>,   \* }
    <<" ", " ", "\"", "a", "\"", ":", " ", "1", ",">>,   \*   "a": 1,
    <<"\"", "a", "\"", ":", " ", "1">>,   \* "a": 1
    <<"\"", "b", "\"">>,   \* "b"
    <<"\"", "a", "\"", ":", " ", "1", ",", ",">>,   \* "a": 1,,
    <<"\"", "a", "\"", ":", " ", ",">>,   \* "a": ,
    <<"\"", "a", "\"", ":", " ", "1", ",", ",", ",">>,   \* "a": 1,,,
    <<"{", "\"", "a", "\"", ":", " ", "1", "}">>,   \* {"a": 1}
    <<"{", "\"", "c", "o", "n", "f", "i", "g", "u", "r", "a", "t", "i", "o", "n", "s", "\"", ":", " ", "[">>,   \* {"configurations": [
    <<"{", "\"", "t", "a", "s", "k", "s", "\"", ":", " ", "[">>,   \* {"tasks": [
    <<"{", "\"", "a", "\"", ":", " ", "2", ",", " ", "\"", "c", "o", "n", "f", "i", "g", "u", "r", "a", "t", "i", "o", "n", "s", "\"", ":", " ", "[">>,   \* {"a": 2, "configurations": [
    <<"{", "\"", "b", "\"", ":", " ", "0", "}", ",", " ", "{", "\"", "a", "\"", ":", " ", "0", "}", ",", " ", "{", "\"", "a", "\"", ":", " ", "1", "}", "]", "}">>,   \* {"b": 0}, {"a": 0}, {"a": 1}]}
    <<>>,   \* the empty line
    <<"/", "/", " ", "c">>,   \* // c
    <<"/", "*", " ", "{">>,   \* a line that opens a block comment and then a brace
    <<"*", "/", " ", "{", "}">>,   \* a line that closes a block comment, then an empty object
    <<"[", "1", "]">>,   \* [1]
    <<"{", "\"", "\"", ":", " ", "1", "}">>,   \* {"": 1}
    <<"n", "u", "l", "l">>,   \* null
    <<"1">>,   \* 1
    <<"\"", "a", "\"", ":">>,   \* "a":
    <<"\"", "a", "\"", ":", " ">>,   \* the key a, a colon and one space
    <<"\"", "a", "\"", ":", " ", "1", " ", ",", " ">>,   \* the key a, the value 1, then space, comma, space
    <<"{", "\"", "b", "\"", ":", " ", "2", ",", " ", "\"", "1", "\"", ":", " ", "0", "}">>,   \* {"b": 2, "1": 0}
    <<"\"", "a", "\"", ":", " ", "[", "1", ",", " ", "\"", "b", "\"", "]", ",">>,   \* "a": [1, "b"],
    <<"\"", "b", "\"", ",", " ", "\"", ":", "\"">>,   \* "b", ":"
    <<"\"", "\"", "]", "}">>    \* ""]}
}

Documents == UNION {[1..n -> Pool] : n \in 1..MaxLines}

NotCalled == [kind |-> "none"]

\* the parts of the extension a specification leaves at rest
ResolverIdle ==
    /\ document = <<>>
    /\ position = 0
    /\ property = NotCalled
    /\ property_p3 = NotCalled

CatalogIdle ==
    /\ lookupKey = ""
    /\ doc = NotCalled
    /\ doc_p3 = NotCalled

AnalyzerIdle ==
    /\ dirStatus = "noFolder"
    /\ fs = {}
    /\ pc = 0
    /\ listed = <<>>
    /\ tally = <<>>
    /\ analysis = NotCalled
    /\ primaryType = NotCalled
    /\ fsChanges = 0

ScoreIdle ==
    /\ signature = NotCalled
    /\ scored = NotCalled

PathIdle ==
    /\ filePath = <<>>
    /\ configFile = NotCalled

EditorIdle ==
    /\ activeEditor = NotCalled
    /\ showPropHelper = FALSE
    /\ content = <<>>
    /\ provider_p3 = NotCalled
    /\ found = "none"
    /\ found_p3 = "none"
    /\ before = <<>>
    /\ before_p3 = NotCalled

\* a file that does not exist, and a file with its text
NoFile == [exists |-> FALSE]

File(text) == [exists |-> TRUE, text |-> text]

\* the names the commands are given: the three managed files, and a name
\* that takes the default branch of the switch of createConfigFile
FileNames == {"settings.json", "launch.json", "extensions.json", "tasks.json"}

ConfigIdle ==
    /\ workspaceFolder = FALSE
    /\ vscodeDir = "missing"
    /\ disk = [name \in FileNames |-> NoFile]
    /\ treeItems = NotCalled
    /\ created = NotCalled
    /\ applied = <<>>
    /\ shownDocument = NotCalled
    /\ diskChanges = 0

ResolverInit ==
    /\ document \in Documents
    /\ position \in -1..Len(document)
    /\ property = NotCalled
    /\ property_p3 = NotCalled
    /\ CatalogIdle
    /\ AnalyzerIdle
    /\ ScoreIdle
    /\ PathIdle
    /\ EditorIdle
    /\ ConfigIdle

\* one call getPropertyAtPosition(document, position) in each version
ResolveAt ==
    /\ property' = getPropertyAtPosition(document, position)
    /\ property_p3' = getPropertyAtPosition_p3(document, position)
    /\ UNCHANGED <<document, position, catalogVars, analyzerVars, scoreVars, pathVars, editorVars, configVars>>

ResolverSpec == ResolverInit /\ [][ResolveAt]_vars

-----------------------------------------------------------------------------
(* Properties of getPropertyAtPosition (resolveAt)                         *)

Called     == property # NotCalled
OnLine     == position \in 0..(Len(document) - 1)
CursorLine == document[position + 1]
Parsed     == JSONparse(cleanText(getText(document)))
LineKey    == lineLocal_p3(CursorLine)

\* L is: white space, a quote at a, a non-empty key without quotes, a quote at
\* b, a colon, white space, a fragment L[c..d] that neither starts nor ends
\* with white space and does not end with a comma, at most one comma, white space
IsKeyValueLine(L, a, b, c, d) ==
    /\ 1 <= a /\ a + 1 < b /\ b + 1 < c /\ c <= d /\ d <= Len(L)
    /\ L[a] = Quote /\ L[b] = Quote /\ L[b + 1] = ":"
    /\ \A k \in 1..(a - 1) : L[k] \in WhiteSpace
    /\ \A k \in (a + 1)..(b - 1) : L[k] # Quote
    /\ \A k \in (b + 2)..(c - 1) : L[k] \in WhiteSpace
    /\ L[c] \notin WhiteSpace /\ L[d] \notin WhiteSpace /\ L[d] # ","
    /\ \A k \in (IF At(L, d + 1) = "," THEN d + 2 ELSE d + 1)..Len(L) :
            L[k] \in WhiteSpace

\* the decompositions of L as such a line
KeyValueForms(L) ==
    {f \in {<<a, b, c, d>> : a \in {SkipWhiteSpace(L, 1)},
                             b \in {NextQuote(L, SkipWhiteSpace(L, 1))},
                             c \in 1..Len(L), d \in 1..Len(L)} :
        IsKeyValueLine(L, f[1], f[2], f[3], f[4])}

C2_KeyOnlyLine ==
    (Called /\ OnLine /\ ~keyValuePattern(CursorLine).matched
            /\ keyOnlyPattern(CursorLine).matched) =>
        /\ property = Property(keyOnlyPattern(CursorLine).g1, Chars("unknown"))
        /\ property_p3 = Property(keyOnlyPattern(CursorLine).g1, Chars("unknown"))

\* C3: when the document parses and the key of the cursor line is an own
\* top-level property of the parsed object, the result is that key with the
\* re-serialized top-level value.
C3_TopLevelEnrichment ==
    (Called /\ OnLine /\ LineKey.haveKey /\ Parsed.ok /\ Parsed.v.t = "object"
            /\ HasOwnProperty(Parsed.v, LineKey.keyFromLine)) =>
        LET value == valueStr(GetProperty(Parsed.v, LineKey.keyFromLine))
        IN  /\ property = Property(LineKey.keyFromLine, value)
            /\ property_p3 = Property(LineKey.keyFromLine, value)

\* an array-valued configurations or tasks property has an element that owns key
InCollection(jsonObject, key) ==
    \E name \in {"configurations", "tasks"} :
        /\ isArrayProperty(jsonObject, name)
        /\ firstOwner(GetProperty(jsonObject, Chars(name)), key) # 0

\* C4: when the document parses, the key of the cursor line is not a top-level
\* property and an element of the configurations (or tasks) array owns it, the
\* result is the re-serialized value of the first such element in array order.
C4_CollectionEnrichment ==
    (Called /\ OnLine /\ LineKey.haveKey /\ Parsed.ok /\ Parsed.v.t = "object"
            /\ ~HasOwnProperty(Parsed.v, LineKey.keyFromLine)
            /\ InCollection(Parsed.v, LineKey.keyFromLine)) =>
        LET expected == structuralValue_p3(Parsed.v, LineKey.keyFromLine,
                                           LineKey.valueFromLine)
        IN  /\ property = expected
            /\ property_p3 = expected

\* C5: when no line pattern matches the cursor line and the document parses to
\* an object with at least one property, the result is the first top-level key
\* with its re-serialized value.
C5_FirstKeyFallback ==
    (Called /\ OnLine /\ ~LineKey.haveKey /\ Parsed.ok /\ Parsed.v.t = "object"
            /\ ObjectKeys(Parsed.v) # <<>>) =>
        LET firstKey == ObjectKeys(Parsed.v)[1]
            expected == Property(firstKey, valueStr(GetProperty(Parsed.v, firstKey)))
        IN  /\ property = expected
            /\ property_p3 = expected

\* C6: when the whole document does not parse, each version returns exactly
\* the result read off the cursor line (null when the line gives no key), and
\* the parse error does not reach the caller.
C6_ParseFailureKeepsLineResult ==
    (Called /\ OnLine /\ ~Parsed.ok) =>
        /\ property = lineLocal(CursorLine)
        /\ property_p3 = IF LineKey.haveKey
                         THEN Property(LineKey.keyFromLine,
                                       orUnknown(LineKey.valueFromLine))
                         ELSE Null
        /\ property.kind \in {"null", "property"}
        /\ property_p3.kind \in {"null", "property"}

\* C6 witness: a call on a key-value line of a document that does not parse
C6_Witness ==
    /\ Called /\ OnLine /\ ~Parsed.ok
    /\ keyValuePattern(CursorLine).matched
    /\ property_p3.kind = "property"
    /\ property.kind = "property"

EndsWithComma(s) == Len(s) > 0 /\ s[Len(s)] = ","

\* C7: on a cursor line that matches the key-value pattern, the returned
\* value never ends with a comma.
C7_NoTrailingComma ==
    (Called /\ OnLine /\ keyValuePattern(CursorLine).matched) =>
        /\ ~EndsWithComma(property.value)
        /\ ~EndsWithComma(property_p3.value)

\* nothing resolves: no quoted token on the cursor line, and the document
\* does not parse or parses to a value without properties
NothingResolves ==
    /\ ~LineKey.haveKey
    /\ \/ ~Parsed.ok
       \/ ObjectKeys(Parsed.v) = <<>>

\* C8: the result is null exactly when nothing resolves, and a key/value pair
\* in every other case.
C8_NullExactlyWhenNothingResolves ==
    (Called /\ OnLine) =>
        /\ (property = Null) <=> NothingResolves
        /\ (property_p3 = Null) <=> NothingResolves

-----------------------------------------------------------------------------
(* The documentation catalog                                               *)

\* const configDocs of src/src/extension.ts: each own property as [key, value],
\* enumDescriptions as <<enum value, description>> pairs
configDocs == <<
    [key |-> "editor.tabSize",
     value |-> [description |-> "The number of spaces a tab is equal to. This setting is overridden based on the file contents when editor.detectIndentation is true.",
               type |-> "number",
               default |-> "4"]],
    [key |-> "editor.insertSpaces",
     value |-> [description |-> "Insert spaces when pressing Tab. This setting is overridden based on the file contents when editor.detectIndentation is true.",
               type |-> "boolean",
               default |-> "true"]],
    [key |-> "editor.fontSize",
     value |-> [description |-> "Controls the font size in pixels.",
               type |-> "number",
               default |-> "14"]],
    [key |-> "editor.fontFamily",
     value |-> [description |-> "Controls the font family.",
               type |-> "string",
               default |-> "Consolas, \"Courier New\", monospace"]],
    [key |-> "editor.fontWeight",
     value |-> [description |-> "Controls the font weight. Accepts normal and bold keywords or numbers between 1 and 1000.",
               type |-> "string|number",
               default |-> "normal",
               enum |-> <<"normal", "bold", "100", "200", "300", "400", "500", "600", "700", "800", "900">>,
               enumDescriptions |-> << <<"normal", "Normal font weight (equivalent to 400)">>, <<"bold", "Bold font weight (equivalent to 700)">>, <<"100", "Thin">>, <<"200", "Extra Light">>, <<"300", "Light">>, <<"400", "Normal">>, <<"500", "Medium">>, <<"600", "Semi Bold">>, <<"700", "Bold">>, <<"800", "Extra Bold">>, <<"900", "Black">> >>]],
    [key |-> "editor.wordWrap",
     value |-> [description |-> "Controls how lines should wrap.",
               type |-> "string",
               default |-> "off",
               enum |-> <<"off", "on", "wordWrapColumn", "bounded">>,
               enumDescriptions |-> << <<"off", "Lines will never wrap">>, <<"on", "Lines will wrap at the viewport width">>, <<"wordWrapColumn", "Lines will wrap at editor.wordWrapColumn">>, <<"bounded", "Lines will wrap at min(viewport, editor.wordWrapColumn)">> >>]],
    [key |-> "editor.lineNumbers",
     value |-> [description |-> "Controls the display of line numbers.",
               type |-> "string",
               default |-> "on",
               enum |-> <<"off", "on", "relative", "interval">>,
               enumDescriptions |-> << <<"off", "Line numbers are not rendered">>, <<"on", "Line numbers are rendered as absolute number">>, <<"relative", "Line numbers are rendered as distance to cursor line">>, <<"interval", "Line numbers are rendered every 10 lines">> >>]],
    [key |-> "editor.minimap.enabled",
     value |-> [description |-> "Controls whether the minimap is shown.",
               type |-> "boolean",
               default |-> "true"]],
    [key |-> "editor.formatOnSave",
     value |-> [description |-> "Format a file on save. A formatter must be available.",
               type |-> "boolean",
               default |-> "false"]],
    [key |-> "editor.formatOnPaste",
     value |-> [description |-> "Format the line after typing. Requires a formatter to be available.",
               type |-> "boolean",
               default |-> "false"]],
    [key |-> "editor.bracketPairColorization.enabled",
     value |-> [description |-> "Controls whether bracket pair colorization is enabled or not.",
               type |-> "boolean",
               default |-> "true"]],
    [key |-> "files.autoSave",
     value |-> [description |-> "Controls auto save of dirty editors.",
               type |-> "string",
               default |-> "off",
               enum |-> <<"off", "afterDelay", "onFocusChange", "onWindowChange">>,
               enumDescriptions |-> << <<"off", "An editor with changes is never automatically saved">>, <<"afterDelay", "An editor with changes is automatically saved after the configured files.autoSaveDelay">>, <<"onFocusChange", "An editor with changes is automatically saved when the editor loses focus">>, <<"onWindowChange", "An editor with changes is automatically saved when the window loses focus">> >>]],
    [key |-> "files.autoSaveDelay",
     value |-> [description |-> "Controls the delay in ms after which a dirty editor is saved automatically.",
               type |-> "number",
               default |-> "1000"]],
    [key |-> "files.exclude",
     value |-> [description |-> "Configure glob patterns for excluding files and folders.",
               type |-> "object",
               default |-> "{}"]],
    [key |-> "files.trimTrailingWhitespace",
     value |-> [description |-> "When enabled, will trim trailing whitespace when saving a file.",
               type |-> "boolean",
               default |-> "false"]],
    [key |-> "workbench.colorTheme",
     value |-> [description |-> "Specifies the color theme used in the workbench.",
               type |-> "string",
               default |-> "Default Dark+"]],
    [key |-> "workbench.iconTheme",
     value |-> [description |-> "Specifies the icon theme used in the workbench.",
               type |-> "string",
               default |-> "vs-seti"]],
    [key |-> "workbench.startupEditor",
     value |-> [description |-> "Controls which editor is shown at startup.",
               type |-> "string",
               default |-> "welcomePage",
               enum |-> <<"none", "welcomePage", "readme", "newUntitledFile", "welcomePageInEmptyWorkbench">>,
               enumDescriptions |-> << <<"none", "Start without an editor">>, <<"welcomePage", "Open the Welcome page">>, <<"readme", "Open the README when opening a folder that contains one">>, <<"newUntitledFile", "Open a new untitled file">>, <<"welcomePageInEmptyWorkbench", "Open the Welcome page when opening an empty workbench">> >>]],
    [key |-> "workbench.editor.enablePreview",
     value |-> [description |-> "Controls whether opened editors show as preview editors.",
               type |-> "boolean",
               default |-> "true"]],
    [key |-> "workbench.activityBar.visible",
     value |-> [description |-> "Controls the visibility of the activity bar in the workbench.",
               type |-> "boolean",
               default |-> "true"]],
    [key |-> "terminal.integrated.fontSize",
     value |-> [description |-> "Controls the font size in pixels of the terminal.",
               type |-> "number",
               default |-> "14"]],
    [key |-> "git.enabled",
     value |-> [description |-> "Whether git is enabled.",
               type |-> "boolean",
               default |-> "true"]],
    [key |-> "git.autofetch",
     value |-> [description |-> "Whether auto fetching is enabled.",
               type |-> "boolean",
               default |-> "false"]],
    [key |-> "name",
     value |-> [description |-> "Name of the configuration; appears in the launch configuration dropdown menu.",
               type |-> "string",
               default |-> "Launch Program"]],
    [key |-> "type",
     value |-> [description |-> "Type of configuration launcher to use.",
               type |-> "string",
               default |-> "node",
               enum |-> <<"node", "chrome", "extensionHost", "python", "go", "java", "php", "ruby", "lldb", "cppdbg", "coreclr">>,
               enumDescriptions |-> << <<"node", "For debugging Node.js applications">>, <<"chrome", "For debugging web applications in Chrome">>, <<"extensionHost", "For debugging VS Code extensions">>, <<"python", "For debugging Python applications">>, <<"go", "For debugging Go applications">>, <<"java", "For debugging Java applications">>, <<"php", "For debugging PHP applications">>, <<"ruby", "For debugging Ruby applications">>, <<"lldb", "For debugging C/C++/Objective-C applications with LLDB">>, <<"cppdbg", "For debugging C/C++ applications with GDB/LLDB">>, <<"coreclr", "For debugging .NET Core applications">> >>]],
    [key |-> "request",
     value |-> [description |-> "Request type of the configuration.",
               type |-> "string",
               default |-> "launch",
               enum |-> <<"launch", "attach">>,
               enumDescriptions |-> << <<"launch", "Launch a new instance of the program">>, <<"attach", "Attach to an already running instance">> >>]],
    [key |-> "program",
     value |-> [description |-> "Absolute path to the program.",
               type |-> "string",
               default |-> "${workspaceFolder}/app.js"]],
    [key |-> "args",
     value |-> [description |-> "Command line arguments passed to the program.",
               type |-> "array",
               default |-> "[]"]],
    [key |-> "cwd",
     value |-> [description |-> "Absolute path to the working directory of the program being debugged.",
               type |-> "string",
               default |-> "${workspaceFolder}"]],
    [key |-> "env",
     value |-> [description |-> "Environment variables passed to the program.",
               type |-> "object",
               default |-> "{}"]],
    [key |-> "console",
     value |-> [description |-> "Where to launch the debug target.",
               type |-> "string",
               default |-> "integratedTerminal",
               enum |-> <<"internalConsole", "integratedTerminal", "externalTerminal">>,
               enumDescriptions |-> << <<"internalConsole", "VS Code Debug Console">>, <<"integratedTerminal", "VS Code's integrated terminal">>, <<"externalTerminal", "External terminal">> >>]],
    [key |-> "port",
     value |-> [description |-> "Debug port to attach to.",
               type |-> "number",
               default |-> "9229"]],
    [key |-> "skipFiles",
     value |-> [description |-> "An array of glob patterns to skip when debugging.",
               type |-> "array",
               default |-> "[]"]],
    [key |-> "stopOnEntry",
     value |-> [description |-> "Automatically stop after launch.",
               type |-> "boolean",
               default |-> "false"]],
    [key |-> "sourceMaps",
     value |-> [description |-> "Use JavaScript source maps (if they exist).",
               type |-> "boolean",
               default |-> "true"]],
    [key |-> "version",
     value |-> [description |-> "Version of the debug configuration format.",
               type |-> "string",
               default |-> "0.2.0"]],
    [key |-> "configurations",
     value |-> [description |-> "List of configurations. Each configuration is a separate debug session.",
               type |-> "array",
               default |-> "[]"]],
    [key |-> "recommendations",
     value |-> [description |-> "List of extensions recommended for users of this workspace.",
               type |-> "array",
               default |-> "[]"]],
    [key |-> "unwantedRecommendations",
     value |-> [description |-> "List of extensions not recommended for users of this workspace.",
               type |-> "array",
               default |-> "[]"]]
>>

\* const configDocs of src/unnamed/part_003: each own property as [key, value],
\* enumDescriptions as <<enum value, description>> pairs
configDocs_p3 == <<
    [key |-> "editor.tabSize",
     value |-> [description |-> "The number of spaces a tab is equal to. This setting is overridden based on the file contents when editor.detectIndentation is true.",
               type |-> "number",
               default |-> "4"]],
    [key |-> "editor.insertSpaces",
     value |-> [description |-> "Insert spaces when pressing Tab. This setting is overridden based on the file contents when editor.detectIndentation is true.",
               type |-> "boolean",
               default |-> "true"]],
    [key |-> "editor.fontSize",
     value |-> [description |-> "Controls the font size in pixels.",
               type |-> "number",
               default |-> "14"]],
    [key |-> "editor.fontFamily",
     value |-> [description |-> "Controls the font family.",
               type |-> "string",
               default |-> "Consolas, \"Courier New\", monospace"]],
    [key |-> "editor.fontWeight",
     value |-> [description |-> "Controls the font weight. Accepts normal and bold keywords or numbers between 1 and 1000.",
               type |-> "string|number",
               default |-> "normal",
               enum |-> <<"normal", "bold", "100", "200", "300", "400", "500", "600", "700", "800", "900">>,
               enumDescriptions |-> << <<"normal", "Normal font weight (equivalent to 400)">>, <<"bold", "Bold font weight (equivalent to 700)">>, <<"100", "Thin">>, <<"200", "Extra Light">>, <<"300", "Light">>, <<"400", "Normal">>, <<"500", "Medium">>, <<"600", "Semi Bold">>, <<"700", "Bold">>, <<"800", "Extra Bold">>, <<"900", "Black">> >>]],
    [key |-> "editor.wordWrap",
     value |-> [description |-> "Controls how lines should wrap.",
               type |-> "string",
               default |-> "off",
               enum |-> <<"off", "on", "wordWrapColumn", "bounded">>,
               enumDescriptions |-> << <<"off", "Lines will never wrap">>, <<"on", "Lines will wrap at the viewport width">>, <<"wordWrapColumn", "Lines will wrap at editor.wordWrapColumn">>, <<"bounded", "Lines will wrap at min(viewport, editor.wordWrapColumn)">> >>]],
    [key |-> "editor.lineNumbers",
     value |-> [description |-> "Controls the display of line numbers.",
               type |-> "string",
               default |-> "on",
               enum |-> <<"off", "on", "relative", "interval">>,
               enumDescriptions |-> << <<"off", "Line numbers are not rendered">>, <<"on", "Line numbers are rendered as absolute number">>, <<"relative", "Line numbers are rendered as distance to cursor line">>, <<"interval", "Line numbers are rendered every 10 lines">> >>]],
    [key |-> "editor.minimap.enabled",
     value |-> [description |-> "Controls whether the minimap is shown.",
               type |-> "boolean",
               default |-> "true"]],
    [key |-> "editor.minimap.side",
     value |-> [description |-> "Controls the side where to render the minimap.",
               type |-> "string",
               default |-> "right",
               enum |-> <<"left", "right">>,
               enumDescriptions |-> << <<"left", "Render minimap to left of editor">>, <<"right", "Render minimap to right of editor">> >>]],
    [key |-> "editor.minimap.size",
     value |-> [description |-> "The size of the minimap.",
               type |-> "string",
               default |-> "proportional",
               enum |-> <<"proportional", "fill", "fit">>,
               enumDescriptions |-> << <<"proportional", "The minimap has the same size as the editor contents (and might scroll)">>, <<"fill", "The minimap will stretch or shrink as necessary to fill the height of the editor">>, <<"fit", "The minimap will shrink as necessary to never be larger than the editor">> >>]],
    [key |-> "editor.cursorStyle",
     value |-> [description |-> "Controls the cursor style.",
               type |-> "string",
               default |-> "line",
               enum |-> <<"line", "block", "underline", "line-thin", "block-outline", "underline-thin">>,
               enumDescriptions |-> << <<"line", "A thick vertical line">>, <<"block", "A filled rectangle">>, <<"underline", "A thick horizontal line">>, <<"line-thin", "A thin vertical line">>, <<"block-outline", "An outlined rectangle">>, <<"underline-thin", "A thin horizontal line">> >>]],
    [key |-> "editor.cursorBlinking",
     value |-> [description |-> "Control the cursor animation style.",
               type |-> "string",
               default |-> "blink",
               enum |-> <<"blink", "smooth", "phase", "expand", "solid">>,
               enumDescriptions |-> << <<"blink", "Normal blinking">>, <<"smooth", "Smooth fading">>, <<"phase", "Blinking with smooth fading">>, <<"expand", "Cursor expands and contracts">>, <<"solid", "No blinking">> >>]],
    [key |-> "editor.formatOnSave",
     value |-> [description |-> "Format a file on save. A formatter must be available, the file must not be saved after delay, and the editor must not be shutting down.",
               type |-> "boolean",
               default |-> "false"]],
    [key |-> "editor.formatOnPaste",
     value |-> [description |-> "Format the line after typing. Requires a formatter to be available.",
               type |-> "boolean",
               default |-> "false"]],
    [key |-> "editor.formatOnType",
     value |-> [description |-> "Format the line after typing. Requires a formatter to be available.",
               type |-> "boolean",
               default |-> "false"]],
    [key |-> "editor.autoIndent",
     value |-> [description |-> "Controls whether the editor should automatically adjust the indentation when users type, paste, move or indent lines.",
               type |-> "string",
               default |-> "full",
               enum |-> <<"none", "keep", "brackets", "advanced", "full">>,
               enumDescriptions |-> << <<"none", "The editor will not insert indentation automatically">>, <<"keep", "The editor will keep the current line indentation">>, <<"brackets", "The editor will keep the current line indentation and honor language defined brackets">>, <<"advanced", "The editor will keep the current line indentation, honor language defined brackets and invoke special onEnterRules defined by languages">>, <<"full", "The editor will keep the current line indentation, honor language defined brackets, invoke special onEnterRules defined by languages, and honor indentationRules defined by languages">> >>]],
    [key |-> "editor.bracketPairColorization.enabled",
     value |-> [description |-> "Controls whether bracket pair colorization is enabled or not. Use workbench.colorCustomizations to override the bracket highlight colors.",
               type |-> "boolean",
               default |-> "true"]],
    [key |-> "editor.suggest.showKeywords",
     value |-> [description |-> "When enabled IntelliSense shows keyword suggestions.",
               type |-> "boolean",
               default |-> "true"]],
    [key |-> "editor.suggest.showSnippets",
     value |-> [description |-> "When enabled IntelliSense shows snippet suggestions.",
               type |-> "boolean",
               default |-> "true"]],
    [key |-> "editor.quickSuggestions",
     value |-> [description |-> "Controls whether suggestions should automatically show up while typing.",
               type |-> "boolean|object",
               default |-> "true"]],
    [key |-> "editor.acceptSuggestionOnCommitCharacter",
     value |-> [description |-> "Controls whether suggestions should be accepted on commit characters.",
               type |-> "boolean",
               default |-> "true"]],
    [key |-> "editor.acceptSuggestionOnEnter",
     value |-> [description |-> "Controls whether suggestions should be accepted on Enter, in addition to Tab.",
               type |-> "string",
               default |-> "on",
               enum |-> <<"on", "smart", "off">>,
               enumDescriptions |-> << <<"on", "Accept suggestions on Enter">>, <<"smart", "Only accept a suggestion with Enter when it makes a textual change">>, <<"off", "Never accept suggestions on Enter">> >>]],
    [key |-> "files.autoSave",
     value |-> [description |-> "Controls auto save of dirty editors.",
               type |-> "string",
               default |-> "off",
               enum |-> <<"off", "afterDelay", "onFocusChange", "onWindowChange">>,
               enumDescriptions |-> << <<"off", "An editor with changes is never automatically saved">>, <<"afterDelay", "An editor with changes is automatically saved after the configured files.autoSaveDelay">>, <<"onFocusChange", "An editor with changes is automatically saved when the editor loses focus">>, <<"onWindowChange", "An editor with changes is automatically saved when the window loses focus">> >>]],
    [key |-> "files.autoSaveDelay",
     value |-> [description |-> "Controls the delay in ms after which a dirty editor is saved automatically.",
               type |-> "number",
               default |-> "1000"]],
    [key |-> "files.exclude",
     value |-> [description |-> "Configure glob patterns for excluding files and folders.",
               type |-> "object",
               default |-> "{}"]],
    [key |-> "files.encoding",
     value |-> [description |-> "The default character set encoding to use when reading and writing files.",
               type |-> "string",
               default |-> "utf8"]],
    [key |-> "files.eol",
     value |-> [description |-> "The default end of line character.",
               type |-> "string",
               default |-> "auto",
               enum |-> <<"auto", "n", "rn">>,
               enumDescriptions |-> << <<"auto", "Uses operating system specific end of line character">>, <<"n", "LF">>, <<"rn", "CRLF">> >>]],
    [key |-> "files.trimTrailingWhitespace",
     value |-> [description |-> "When enabled, will trim trailing whitespace when saving a file.",
               type |-> "boolean",
               default |-> "false"]],
    [key |-> "files.insertFinalNewline",
     value |-> [description |-> "When enabled, insert a final new line at the end of the file when saving it.",
               type |-> "boolean",
               default |-> "false"]],
    [key |-> "workbench.colorTheme",
     value |-> [description |-> "Specifies the color theme used in the workbench.",
               type |-> "string",
               default |-> "Default Dark+"]],
    [key |-> "workbench.iconTheme",
     value |-> [description |-> "Specifies the icon theme used in the workbench.",
               type |-> "string",
               default |-> "vs-seti"]],
    [key |-> "workbench.startupEditor",
     value |-> [description |-> "Controls which editor is shown at startup.",
               type |-> "string",
               default |-> "welcomePage",
               enum |-> <<"none", "welcomePage", "readme", "newUntitledFile", "welcomePageInEmptyWorkbench">>,
               enumDescriptions |-> << <<"none", "Start without an editor">>, <<"welcomePage", "Open the Welcome page">>, <<"readme", "Open the README when opening a folder that contains one">>, <<"newUntitledFile", "Open a new untitled file">>, <<"welcomePageInEmptyWorkbench", "Open the Welcome page when opening an empty workbench">> >>]],
    [key |-> "workbench.editor.enablePreview",
     value |-> [description |-> "Controls whether opened editors show as preview editors.",
               type |-> "boolean",
               default |-> "true"]],
    [key |-> "workbench.editor.showTabs",
     value |-> [description |-> "Controls whether opened editors should show in tabs or not.",
               type |-> "boolean",
               default |-> "true"]],
    [key |-> "workbench.editor.tabCloseButton",
     value |-> [description |-> "Controls the position of the editor tabs close buttons, or disables them when set to off.",
               type |-> "string",
               default |-> "right",
               enum |-> <<"left", "right", "off">>,
               enumDescriptions |-> << <<"left", "Tab close button on the left of the tab">>, <<"right", "Tab close button on the right of the tab">>, <<"off", "Tab close button is disabled">> >>]],
    [key |-> "workbench.activityBar.visible",
     value |-> [description |-> "Controls the visibility of the activity bar in the workbench.",
               type |-> "boolean",
               default |-> "true"]],
    [key |-> "workbench.statusBar.visible",
     value |-> [description |-> "Controls the visibility of the status bar at the bottom of the workbench.",
               type |-> "boolean",
               default |-> "true"]],
    [key |-> "workbench.sideBar.location",
     value |-> [description |-> "Controls the location of the sidebar and activity bar.",
               type |-> "string",
               default |-> "left",
               enum |-> <<"left", "right">>,
               enumDescriptions |-> << <<"left", "Positions the sidebar and activity bar on the left">>, <<"right", "Positions the sidebar and activity bar on the right">> >>]],
    [key |-> "terminal.integrated.shell.windows",
     value |-> [description |-> "The path of the shell that the terminal uses on Windows.",
               type |-> "string",
               default |-> "C:\\Windows\\System32\\cmd.exe"]],
    [key |-> "terminal.integrated.shell.osx",
     value |-> [description |-> "The path of the shell that the terminal uses on macOS.",
               type |-> "string",
               default |-> "/bin/bash"]],
    [key |-> "terminal.integrated.shell.linux",
     value |-> [description |-> "The path of the shell that the terminal uses on Linux.",
               type |-> "string",
               default |-> "/bin/bash"]],
    [key |-> "terminal.integrated.fontSize",
     value |-> [description |-> "Controls the font size in pixels of the terminal.",
               type |-> "number",
               default |-> "14"]],
    [key |-> "terminal.integrated.fontFamily",
     value |-> [description |-> "Controls the font family of the terminal.",
               type |-> "string",
               default |-> "Consolas, \"Courier New\", monospace"]],
    [key |-> "git.enabled",
     value |-> [description |-> "Whether git is enabled.",
               type |-> "boolean",
               default |-> "true"]],
    [key |-> "git.autofetch",
     value |-> [description |-> "Whether auto fetching is enabled.",
               type |-> "boolean",
               default |-> "false"]],
    [key |-> "git.confirmSync",
     value |-> [description |-> "Confirm before synchronizing git repositories.",
               type |-> "boolean",
               default |-> "true"]],
    [key |-> "search.exclude",
     value |-> [description |-> "Configure glob patterns for excluding files and folders in fulltext searches and quick open.",
               type |-> "object",
               default |-> "{}"]],
    [key |-> "search.useGlobalIgnoreFiles",
     value |-> [description |-> "Controls whether to use global .gitignore and .ignore files when searching for files.",
               type |-> "boolean",
               default |-> "false"]],
    [key |-> "name",
     value |-> [description |-> "Name of the configuration; appears in the launch configuration dropdown menu.",
               type |-> "string",
               default |-> "Launch Program"]],
    [key |-> "type",
     value |-> [description |-> "Type of configuration launcher to use.",
               type |-> "string",
               default |-> "node",
               enum |-> <<"node", "chrome", "extensionHost", "python", "go", "java", "php", "ruby", "lldb", "cppdbg", "coreclr">>,
               enumDescriptions |-> << <<"node", "For debugging Node.js applications">>, <<"chrome", "For debugging web applications in Chrome">>, <<"extensionHost", "For debugging VS Code extensions">>, <<"python", "For debugging Python applications">>, <<"go", "For debugging Go applications">>, <<"java", "For debugging Java applications">>, <<"php", "For debugging PHP applications">>, <<"ruby", "For debugging Ruby applications">>, <<"lldb", "For debugging C/C++/Objective-C applications with LLDB">>, <<"cppdbg", "For debugging C/C++ applications with GDB/LLDB">>, <<"coreclr", "For debugging .NET Core applications">> >>]],
    [key |-> "request",
     value |-> [description |-> "Request type of the configuration.",
               type |-> "string",
               default |-> "launch",
               enum |-> <<"launch", "attach">>,
               enumDescriptions |-> << <<"launch", "Launch a new instance of the program">>, <<"attach", "Attach to an already running instance">> >>]],
    [key |-> "program",
     value |-> [description |-> "Absolute path to the program.",
               type |-> "string",
               default |-> "${workspaceFolder}/app.js"]],
    [key |-> "args",
     value |-> [description |-> "Command line arguments passed to the program.",
               type |-> "array",
               default |-> "[]"]],
    [key |-> "cwd",
     value |-> [description |-> "Absolute path to the working directory of the program being debugged.",
               type |-> "string",
               default |-> "${workspaceFolder}"]],
    [key |-> "env",
     value |-> [description |-> "Environment variables passed to the program.",
               type |-> "object",
               default |-> "{}"]],
    [key |-> "envFile",
     value |-> [description |-> "Absolute path to a file containing environment variable definitions.",
               type |-> "string",
               default |-> "${workspaceFolder}/.env"]],
    [key |-> "console",
     value |-> [description |-> "Where to launch the debug target.",
               type |-> "string",
               default |-> "integratedTerminal",
               enum |-> <<"internalConsole", "integratedTerminal", "externalTerminal">>,
               enumDescriptions |-> << <<"internalConsole", "VS Code Debug Console (which doesn't support to read from stdin)">>, <<"integratedTerminal", "VS Code's integrated terminal">>, <<"externalTerminal", "External terminal that can be configured via user settings">> >>]],
    [key |-> "port",
     value |-> [description |-> "Debug port to attach to.",
               type |-> "number",
               default |-> "9229"]],
    [key |-> "address",
     value |-> [description |-> "TCP/IP address of debug port.",
               type |-> "string",
               default |-> "localhost"]],
    [key |-> "skipFiles",
     value |-> [description |-> "An array of glob patterns to skip when debugging.",
               type |-> "array",
               default |-> "[]"]],
    [key |-> "stopOnEntry",
     value |-> [description |-> "Automatically stop after launch.",
               type |-> "boolean",
               default |-> "false"]],
    [key |-> "restart",
     value |-> [description |-> "Restart session on termination.",
               type |-> "boolean",
               default |-> "false"]],
    [key |-> "timeout",
     value |-> [description |-> "Retry for this number of milliseconds to connect to the debug adapter.",
               type |-> "number",
               default |-> "10000"]],
    [key |-> "sourceMaps",
     value |-> [description |-> "Use JavaScript source maps (if they exist).",
               type |-> "boolean",
               default |-> "true"]],
    [key |-> "outFiles",
     value |-> [description |-> "If source maps are enabled, these glob patterns specify the generated JavaScript files.",
               type |-> "array",
               default |-> "[]"]],
    [key |-> "smartStep",
     value |-> [description |-> "Automatically step through generated code that cannot be mapped back to the original source.",
               type |-> "boolean",
               default |-> "true"]],
    [key |-> "version",
     value |-> [description |-> "Version of the debug configuration format.",
               type |-> "string",
               default |-> "0.2.0"]],
    [key |-> "configurations",
     value |-> [description |-> "List of configurations. Each configuration is a separate debug session.",
               type |-> "array",
               default |-> "[]"]],
    [key |-> "compounds",
     value |-> [description |-> "List of compound configurations that are collections of configurations.",
               type |-> "array",
               default |-> "[]"]],
    [key |-> "preLaunchTask",
     value |-> [description |-> "Task to run before the session starts.",
               type |-> "string",
               default |-> ""]],
    [key |-> "postDebugTask",
     value |-> [description |-> "Task to run after the session ends.",
               type |-> "string",
               default |-> ""]],
    [key |-> "internalConsoleOptions",
     value |-> [description |-> "Controls behavior of the internal debug console.",
               type |-> "string",
               default |-> "openOnFirstSessionStart",
               enum |-> <<"neverOpen", "openOnSessionStart", "openOnFirstSessionStart">>,
               enumDescriptions |-> << <<"neverOpen", "Never open the internal debug console">>, <<"openOnSessionStart", "Open the internal debug console on every session start">>, <<"openOnFirstSessionStart", "Open the internal debug console on the first session start">> >>]],
    [key |-> "python",
     value |-> [description |-> "Absolute path to python executable.",
               type |-> "string",
               default |-> "python"]],
    [key |-> "module",
     value |-> [description |-> "Name of the module to be debugged.",
               type |-> "string",
               default |-> ""]],
    [key |-> "django",
     value |-> [description |-> "Whether to enable Django debugging.",
               type |-> "boolean",
               default |-> "false"]],
    [key |-> "flask",
     value |-> [description |-> "Whether to enable Flask debugging.",
               type |-> "boolean",
               default |-> "false"]],
    [key |-> "pyramid",
     value |-> [description |-> "Whether to enable Pyramid debugging.",
               type |-> "boolean",
               default |-> "false"]],
    [key |-> "jinja",
     value |-> [description |-> "Whether to enable Jinja2 template debugging.",
               type |-> "boolean",
               default |-> "true"]],
    [key |-> "url",
     value |-> [description |-> "Will search for a tab with this exact url and attach to it, if found.",
               type |-> "string",
               default |-> "http://localhost:8080"]],
    [key |-> "webRoot",
     value |-> [description |-> "This specifies the workspace absolute path to the webserver root.",
               type |-> "string",
               default |-> "${workspaceFolder}"]],
    [key |-> "file",
     value |-> [description |-> "A local html file to open in the browser.",
               type |-> "string",
               default |-> "${workspaceFolder}/index.html"]],
    [key |-> "userDataDir",
     value |-> [description |-> "When set, Chrome is launched with a custom user profile stored in this location.",
               type |-> "string",
               default |-> "${workspaceFolder}/.vscode/chrome"]],
    [key |-> "runtimeExecutable",
     value |-> [description |-> "Workspace relative or absolute path to the runtime executable to be used.",
               type |-> "string",
               default |-> "stable"]],
    [key |-> "runtimeArgs",
     value |-> [description |-> "Optional arguments passed to the runtime executable.",
               type |-> "array",
               default |-> "[]"]],
    [key |-> "recommendations",
     value |-> [description |-> "List of extensions recommended for users of this workspace. Extensions are identified using their publisher name and extension name, e.g., \"ms-python.python\".",
               type |-> "array",
               default |-> "[]"]],
    [key |-> "unwantedRecommendations",
     value |-> [description |-> "List of extensions not recommended for users of this workspace. This prevents certain extensions from appearing in the recommendations list.",
               type |-> "array",
               default |-> "[]"]],
    [key |-> "pathMappings",
     value |-> [description |-> "A list of mappings from a local path to a remote path for debugging remote applications.",
               type |-> "array",
               default |-> "[]"]],
    [key |-> "protocol",
     value |-> [description |-> "Protocol to use for connecting to the debug adapter.",
               type |-> "string",
               default |-> "inspector",
               enum |-> <<"inspector", "legacy">>,
               enumDescriptions |-> << <<"inspector", "Use the Inspector Protocol">>, <<"legacy", "Use the legacy V8 Debugger Protocol">> >>]],
    [key |-> "remoteRoot",
     value |-> [description |-> "Remote directory containing the source code being debugged.",
               type |-> "string",
               default |-> ""]],
    [key |-> "localRoot",
     value |-> [description |-> "Local directory containing the source code being debugged.",
               type |-> "string",
               default |-> "${workspaceFolder}"]],
    [key |-> "trace",
     value |-> [description |-> "Enable logging of the Debug Adapter Protocol.",
               type |-> "boolean|string",
               default |-> "false",
               enum |-> <<"false", "true", "all", "verbose">>,
               enumDescriptions |-> << <<"false", "No logging">>, <<"true", "Basic logging">>, <<"all", "Log all Debug Adapter Protocol traffic">>, <<"verbose", "Verbose logging with full message content">> >>]],
    [key |-> "outputCapture",
     value |-> [description |-> "From where to capture output messages.",
               type |-> "string",
               default |-> "console",
               enum |-> <<"console", "std">>,
               enumDescriptions |-> << <<"console", "Capture output from Debug Console">>, <<"std", "Capture output from stdout/stderr">> >>]],
    [key |-> "breakOnLoad",
     value |-> [description |-> "Automatically insert a breakpoint at the first line of the program.",
               type |-> "boolean",
               default |-> "false"]],
    [key |-> "enableBreakpointsFor",
     value |-> [description |-> "Allows breakpoints to be set in files with these extensions.",
               type |-> "array",
               default |-> "[]"]],
    [key |-> "runtimeVersion",
     value |-> [description |-> "Version of Node.js runtime to use.",
               type |-> "string",
               default |-> "default"]],
    [key |-> "autoAttachChildProcesses",
     value |-> [description |-> "Automatically attach to spawned subprocesses.",
               type |-> "boolean",
               default |-> "true"]],
    [key |-> "killBehavior",
     value |-> [description |-> "Configures how debug processes are killed when stopping the session.",
               type |-> "string",
               default |-> "forceful",
               enum |-> <<"polite", "forceful">>,
               enumDescriptions |-> << <<"polite", "Send SIGTERM to allow graceful shutdown">>, <<"forceful", "Send SIGKILL to force immediate termination">> >>]],
    [key |-> "resolveSourceMapLocations",
     value |-> [description |-> "A list of minimatch patterns for locations where source maps can be used.",
               type |-> "array",
               default |-> "[\"**\", \"!**/node_modules/**\"]"]],
    [key |-> "cascadeTerminateToConfigurations",
     value |-> [description |-> "A list of debug session names that will also be terminated when this debug session terminates.",
               type |-> "array",
               default |-> "[]"]],
    [key |-> "pythonPath",
     value |-> [description |-> "Path to the Python interpreter.",
               type |-> "string",
               default |-> "python"]],
    [key |-> "justMyCode",
     value |-> [description |-> "Debug only user-written code.",
               type |-> "boolean",
               default |-> "true"]],
    [key |-> "subProcess",
     value |-> [description |-> "Enable debugging of subprocesses.",
               type |-> "boolean",
               default |-> "false"]],
    [key |-> "redirectOutput",
     value |-> [description |-> "Redirect output to the debug console.",
               type |-> "boolean",
               default |-> "true"]],
    [key |-> "showReturnValue",
     value |-> [description |-> "Show return values in the debug console.",
               type |-> "boolean",
               default |-> "true"]],
    [key |-> "gevent",
     value |-> [description |-> "Enable debugging support for gevent.",
               type |-> "boolean",
               default |-> "false"]],
    [key |-> "miDebuggerPath",
     value |-> [description |-> "Path to the MI debugger (GDB or LLDB).",
               type |-> "string",
               default |-> "gdb"]],
    [key |-> "miDebuggerArgs",
     value |-> [description |-> "Additional arguments for the MI debugger.",
               type |-> "string",
               default |-> ""]],
    [key |-> "targetArchitecture",
     value |-> [description |-> "Architecture of the debuggee.",
               type |-> "string",
               default |-> "x64",
               enum |-> <<"x86", "x64", "arm", "arm64">>,
               enumDescriptions |-> << <<"x86", "32-bit x86 architecture">>, <<"x64", "64-bit x86 architecture">>, <<"arm", "ARM architecture">>, <<"arm64", "64-bit ARM architecture">> >>]],
    [key |-> "setupCommands",
     value |-> [description |-> "One or more GDB/LLDB commands to execute in order to set up the underlying debugger.",
               type |-> "array",
               default |-> "[]"]],
    [key |-> "customLaunchSetupCommands",
     value |-> [description |-> "Commands to execute when launching a program.",
               type |-> "array",
               default |-> "[]"]],
    [key |-> "launchCompleteCommand",
     value |-> [description |-> "Command to execute after the debugger is fully set up.",
               type |-> "string",
               default |-> "exec-run",
               enum |-> <<"exec-run", "exec-continue", "None">>,
               enumDescriptions |-> << <<"exec-run", "Run the program">>, <<"exec-continue", "Continue execution">>, <<"None", "Do not execute any command">> >>]],
    [key |-> "urlFilter",
     value |-> [description |-> "Will search for a page with this url and attach to it.",
               type |-> "string",
               default |-> ""]],
    [key |-> "includeDefaultArgs",
     value |-> [description |-> "Whether default browser launching args should be included.",
               type |-> "boolean",
               default |-> "true"]],
    [key |-> "disableNetworkCache",
     value |-> [description |-> "Controls whether to skip the network cache for each request.",
               type |-> "boolean",
               default |-> "false"]],
    [key |-> "showAsyncStacks",
     value |-> [description |-> "Show async stacks in the call stack.",
               type |-> "boolean",
               default |-> "true"]],
    [key |-> "breakOnLoadStrategy",
     value |-> [description |-> "Strategy for setting breakpoints.",
               type |-> "string",
               default |-> "instrument",
               enum |-> <<"instrument", "regex">>,
               enumDescriptions |-> << <<"instrument", "Use source map instrumentation for breakpoints">>, <<"regex", "Use regex matching for breakpoint locations">> >>]],
    [key |-> "browser.smartStep",
     value |-> [description |-> "Try to automatically step over code that doesn't map to source files.",
               type |-> "boolean",
               default |-> "true"]],
    [key |-> "browser.skipFiles",
     value |-> [description |-> "Skip these files when stepping.",
               type |-> "array",
               default |-> "[]"]],
    [key |-> "tasks.version",
     value |-> [description |-> "Version of the task configuration format.",
               type |-> "string",
               default |-> "2.0.0"]],
    [key |-> "tasks",
     value |-> [description |-> "Array of task configurations.",
               type |-> "array",
               default |-> "[]"]],
    [key |-> "task.label",
     value |-> [description |-> "The user interface label for the task.",
               type |-> "string",
               default |-> "My Task"]],
    [key |-> "task.command",
     value |-> [description |-> "The command to be executed.",
               type |-> "string",
               default |-> "echo"]],
    [key |-> "options",
     value |-> [description |-> "Additional command options.",
               type |-> "object",
               default |-> "{}"]],
    [key |-> "group",
     value |-> [description |-> "Defines to which group the task belongs.",
               type |-> "string|object",
               default |-> "build",
               enum |-> <<"build", "test">>,
               enumDescriptions |-> << <<"build", "Task is a build task">>, <<"test", "Task is a test task">> >>]],
    [key |-> "presentation",
     value |-> [description |-> "Configures the panel that is used to present the task output and reads its input.",
               type |-> "object",
               default |-> "{}"]],
    [key |-> "problemMatcher",
     value |-> [description |-> "The problem matcher to be used if a global command is executed.",
               type |-> "string|array",
               default |-> "[]"]],
    [key |-> "runOptions",
     value |-> [description |-> "Configures when and how a task is run.",
               type |-> "object",
               default |-> "{}"]],
    [key |-> "dependsOn",
     value |-> [description |-> "Defines the task that this task depends on.",
               type |-> "string|array",
               default |-> "[]"]],
    [key |-> "dependsOrder",
     value |-> [description |-> "Defines the order in which dependent tasks are executed.",
               type |-> "string",
               default |-> "parallel",
               enum |-> <<"parallel", "sequence">>,
               enumDescriptions |-> << <<"parallel", "Dependent tasks are executed in parallel">>, <<"sequence", "Dependent tasks are executed in sequence">> >>]],
    [key |-> "isBackground",
     value |-> [description |-> "Defines whether the task is kept alive and is running in the background.",
               type |-> "boolean",
               default |-> "false"]],
    [key |-> "promptOnClose",
     value |-> [description |-> "Controls whether the task is prompted when VS Code closes with a running task.",
               type |-> "boolean",
               default |-> "false"]],
    [key |-> "detail",
     value |-> [description |-> "A human-readable string which is rendered less prominently in the user interface.",
               type |-> "string",
               default |-> ""]],
    [key |-> "hide",
     value |-> [description |-> "Controls whether the task is hidden from the user interface.",
               type |-> "boolean",
               default |-> "false"]],
    [key |-> "icon",
     value |-> [description |-> "The icon which is used in the task UI.",
               type |-> "object",
               default |-> "{}"]],
    [key |-> "runOn",
     value |-> [description |-> "Specifies when the task should be run.",
               type |-> "string",
               default |-> "default",
               enum |-> <<"default", "folderOpen">>,
               enumDescriptions |-> << <<"default", "The task will only be run when executed through the command palette or keybinding">>, <<"folderOpen", "The task will be run when the containing folder is opened">> >>]],
    [key |-> "presentation.echo",
     value |-> [description |-> "Controls whether the executed command is echoed to the panel.",
               type |-> "boolean",
               default |-> "true"]],
    [key |-> "presentation.reveal",
     value |-> [description |-> "Controls whether the panel is revealed when the task is run.",
               type |-> "string",
               default |-> "always",
               enum |-> <<"always", "silent", "never">>,
               enumDescriptions |-> << <<"always", "Always reveal the panel when the task is run">>, <<"silent", "Reveal the panel only if the task has output or errors">>, <<"never", "Never reveal the panel">> >>]],
    [key |-> "presentation.focus",
     value |-> [description |-> "Controls whether the panel takes focus.",
               type |-> "boolean",
               default |-> "false"]],
    [key |-> "presentation.panel",
     value |-> [description |-> "Controls if the panel is shared between tasks, dedicated to this task, or a new one is created on every run.",
               type |-> "string",
               default |-> "shared",
               enum |-> <<"shared", "dedicated", "new">>,
               enumDescriptions |-> << <<"shared", "The panel is shared between tasks">>, <<"dedicated", "A dedicated panel is used for this task">>, <<"new", "A new panel is created on every task run">> >>]],
    [key |-> "presentation.showReuseMessage",
     value |-> [description |-> "Controls whether to show the \"Terminal will be reused by tasks\" message.",
               type |-> "boolean",
               default |-> "true"]],
    [key |-> "presentation.clear",
     value |-> [description |-> "Controls whether the terminal is cleared before executing the task.",
               type |-> "boolean",
               default |-> "false"]],
    [key |-> "presentation.group",
     value |-> [description |-> "Controls whether the task is executed in a specific terminal group.",
               type |-> "string",
               default |-> ""]],
    [key |-> "options.cwd",
     value |-> [description |-> "The current working directory of the executed program or script.",
               type |-> "string",
               default |-> "${workspaceFolder}"]],
    [key |-> "options.env",
     value |-> [description |-> "The environment of the executed program or script.",
               type |-> "object",
               default |-> "{}"]],
    [key |-> "options.shell",
     value |-> [description |-> "Configuration of the shell when task type is shell.",
               type |-> "object",
               default |-> "{}"]],
    [key |-> "runOptions.instanceLimit",
     value |-> [description |-> "Controls how many instances of the task are allowed to run in parallel.",
               type |-> "number",
               default |-> "1"]],
    [key |-> "runOptions.reevaluateOnRerun",
     value |-> [description |-> "Controls whether variables are re-evaluated when rerunning the task.",
               type |-> "boolean",
               default |-> "true"]],
    [key |-> "problemMatcher.$gcc",
     value |-> [description |-> "Problem matcher for GCC compiler output.",
               type |-> "string",
               default |-> "$gcc"]],
    [key |-> "problemMatcher.$msCompile",
     value |-> [description |-> "Problem matcher for Microsoft compiler output.",
               type |-> "string",
               default |-> "$msCompile"]],
    [key |-> "problemMatcher.$tsc",
     value |-> [description |-> "Problem matcher for TypeScript compiler output.",
               type |-> "string",
               default |-> "$tsc"]],
    [key |-> "problemMatcher.$eslint-stylish",
     value |-> [description |-> "Problem matcher for ESLint output in stylish format.",
               type |-> "string",
               default |-> "$eslint-stylish"]],
    [key |-> "keybinding.key",
     value |-> [description |-> "Key or key sequence (separate keys with plus-sign and sequences with space).",
               type |-> "string",
               default |-> "ctrl+shift+p"]],
    [key |-> "keybinding.command",
     value |-> [description |-> "Identifier of the command to run when keybinding is triggered.",
               type |-> "string",
               default |-> "workbench.action.showCommands"]],
    [key |-> "when",
     value |-> [description |-> "Condition when the key binding is in effect.",
               type |-> "string",
               default |-> ""]],
    [key |-> "keybinding.args",
     value |-> [description |-> "Arguments to pass to the command.",
               type |-> "any",
               default |-> "null"]],
    [key |-> "folders",
     value |-> [description |-> "List of folders in a multi-root workspace.",
               type |-> "array",
               default |-> "[]"]],
    [key |-> "workspace.settings",
     value |-> [description |-> "Workspace settings that apply to the entire workspace.",
               type |-> "object",
               default |-> "{}"]],
    [key |-> "workspace.extensions",
     value |-> [description |-> "Workspace extension recommendations.",
               type |-> "object",
               default |-> "{}"]],
    [key |-> "workspace.launch",
     value |-> [description |-> "Workspace debug configurations.",
               type |-> "object",
               default |-> "{}"]],
    [key |-> "workspace.tasks",
     value |-> [description |-> "Workspace task configurations.",
               type |-> "object",
               default |-> "{}"]],
    [key |-> "workbench.editor.wrapTabs",
     value |-> [description |-> "Controls whether tabs should wrap when the available space is exceeded.",
               type |-> "boolean",
               default |-> "false"]],
    [key |-> "workbench.editor.decorations.badges",
     value |-> [description |-> "Controls whether editor file decorations should use badges.",
               type |-> "boolean",
               default |-> "true"]],
    [key |-> "workbench.editor.decorations.colors",
     value |-> [description |-> "Controls whether editor file decorations should use colors.",
               type |-> "boolean",
               default |-> "true"]],
    [key |-> "workbench.tree.indent",
     value |-> [description |-> "Controls tree indentation in pixels.",
               type |-> "number",
               default |-> "8"]],
    [key |-> "workbench.tree.renderIndentGuides",
     value |-> [description |-> "Controls whether the tree should render indent guides.",
               type |-> "string",
               default |-> "onHover",
               enum |-> <<"none", "onHover", "always">>,
               enumDescriptions |-> << <<"none", "No indent guides">>, <<"onHover", "Indent guides on hover">>, <<"always", "Always show indent guides">> >>]],
    [key |-> "explorer.confirmDelete",
     value |-> [description |-> "Controls whether the explorer should ask for confirmation when deleting a file via the trash.",
               type |-> "boolean",
               default |-> "true"]],
    [key |-> "explorer.confirmDragAndDrop",
     value |-> [description |-> "Controls whether the explorer should ask for confirmation when moving files via drag and drop.",
               type |-> "boolean",
               default |-> "true"]],
    [key |-> "explorer.enableDragAndDrop",
     value |-> [description |-> "Controls whether the explorer allows to move files and folders via drag and drop.",
               type |-> "boolean",
               default |-> "true"]],
    [key |-> "explorer.openEditors.visible",
     value |-> [description |-> "Number of editors shown in the Open Editors pane.",
               type |-> "number",
               default |-> "9"]],
    [key |-> "explorer.autoReveal",
     value |-> [description |-> "Controls whether the explorer should automatically reveal and select files when opening them.",
               type |-> "boolean|string",
               default |-> "true",
               enum |-> <<"true", "false", "focusNoScroll">>,
               enumDescriptions |-> << <<"true", "Files will be revealed and selected">>, <<"false", "Files will not be revealed and selected">>, <<"focusNoScroll", "Files will be revealed and selected only when focus moves to the explorer">> >>]],
    [key |-> "debug.allowBreakpointsEverywhere",
     value |-> [description |-> "Controls whether to allow setting breakpoints in any file.",
               type |-> "boolean",
               default |-> "false"]],
    [key |-> "debug.inlineValues",
     value |-> [description |-> "Controls whether to show inline values in the editor while debugging.",
               type |-> "boolean",
               default |-> "false"]],
    [key |-> "debug.toolBarLocation",
     value |-> [description |-> "Controls the location of the debug toolbar.",
               type |-> "string",
               default |-> "floating",
               enum |-> <<"floating", "docked", "hidden">>,
               enumDescriptions |-> << <<"floating", "Show debug toolbar in floating mode">>, <<"docked", "Show debug toolbar docked in the debug viewlet">>, <<"hidden", "Hide debug toolbar">> >>]],
    [key |-> "debug.console.fontSize",
     value |-> [description |-> "Controls the font size in pixels in the debug console.",
               type |-> "number",
               default |-> "14"]],
    [key |-> "debug.console.lineHeight",
     value |-> [description |-> "Controls the line height in the debug console.",
               type |-> "number",
               default |-> "1.4"]],
    [key |-> "[javascript]",
     value |-> [description |-> "Language specific editor settings for JavaScript.",
               type |-> "object",
               default |-> "{}"]],
    [key |-> "[typescript]",
     value |-> [description |-> "Language specific editor settings for TypeScript.",
               type |-> "object",
               default |-> "{}"]],
    [key |-> "[json]",
     value |-> [description |-> "Language specific editor settings for JSON.",
               type |-> "object",
               default |-> "{}"]],
    [key |-> "[html]",
     value |-> [description |-> "Language specific editor settings for HTML.",
               type |-> "object",
               default |-> "{}"]],
    [key |-> "[css]",
     value |-> [description |-> "Language specific editor settings for CSS.",
               type |-> "object",
               default |-> "{}"]],
    [key |-> "[python]",
     value |-> [description |-> "Language specific editor settings for Python.",
               type |-> "object",
               default |-> "{}"]],
    [key |-> "[markdown]",
     value |-> [description |-> "Language specific editor settings for Markdown.",
               type |-> "object",
               default |-> "{}"]],
    [key |-> "eslint.enable",
     value |-> [description |-> "Controls whether eslint is enabled or not.",
               type |-> "boolean",
               default |-> "true"]],
    [key |-> "eslint.workingDirectories",
     value |-> [description |-> "Specifies how the working directories ESLint is using are computed.",
               type |-> "array",
               default |-> "[]"]],
    [key |-> "prettier.enable",
     value |-> [description |-> "Whether to enable prettier.",
               type |-> "boolean",
               default |-> "true"]],
    [key |-> "prettier.requireConfig",
     value |-> [description |-> "Require a prettier configuration file to format.",
               type |-> "boolean",
               default |-> "false"]],
    [key |-> "emmet.includeLanguages",
     value |-> [description |-> "Enable Emmet abbreviations in languages that are not supported by default.",
               type |-> "object",
               default |-> "{}"]],
    [key |-> "liveServer.settings.port",
     value |-> [description |-> "Set Custom Port Number of Live Server.",
               type |-> "number",
               default |-> "5500"]],
    [key |-> "java.home",
     value |-> [description |-> "Specifies the folder path to the JDK.",
               type |-> "string",
               default |-> ""]],
    [key |-> "python.defaultInterpreterPath",
     value |-> [description |-> "Path to default Python interpreter.",
               type |-> "string",
               default |-> "python"]],
    [key |-> "python.linting.enabled",
     value |-> [description |-> "Whether to enable linting of Python files.",
               type |-> "boolean",
               default |-> "true"]],
    [key |-> "go.gopath",
     value |-> [description |-> "Specifies the GOPATH to use when no environment variable is set.",
               type |-> "string",
               default |-> ""]],
    [key |-> "go.goroot",
     value |-> [description |-> "Specifies the GOROOT to use when finding the Go binary.",
               type |-> "string",
               default |-> ""]]
>>

\* the members every object literal inherits from Object.prototype
ObjectPrototypeMembers ==
    {"constructor", "toString", "toLocaleString", "valueOf", "hasOwnProperty",
     "isPrototypeOf", "propertyIsEnumerable", "__proto__", "__defineGetter__",
     "__defineSetter__", "__lookupGetter__", "__lookupSetter__"}

OwnKeys(table) == {table[i].key : i \in DOMAIN table}

\* (table as any)[key]: the own property, else the member inherited from
\* Object.prototype (a function, or Object.prototype itself for __proto__),
\* else undefined
getMember(table, key) ==
    IF key \in OwnKeys(table)
    THEN [kind |-> "entry",
          value |-> table[CHOOSE i \in DOMAIN table : table[i].key = key].value]
    ELSE IF key \in ObjectPrototypeMembers
    THEN [kind |-> "inherited", member |-> key]
    ELSE [kind |-> "undefined"]

\* { description: 'No documentation available for this configuration.', type: 'unknown' }
NoDocumentation ==
    [kind |-> "entry",
     value |-> [description |-> "No documentation available for this configuration.",
                type |-> "unknown"]]

\* left || right for a left operand that is undefined or an object
orElse(left, right) == IF left.kind = "undefined" THEN right ELSE left

\* src/src/extension.ts
getConfigDocumentation(key) == orElse(getMember(configDocs, key), NoDocumentation)

\* src/unnamed/part_003
getConfigDocumentation_p3(key) == orElse(getMember(configDocs_p3, key), NoDocumentation)

\* the names looked up: every declared name of either version, every inherited
\* member name, and names that differ from a declared one by case or are a
\* part of one
LookupKeys ==
    OwnKeys(configDocs) \cup OwnKeys(configDocs_p3) \cup ObjectPrototypeMembers
    \cup {"", "editor", "tabSize", "Editor.tabSize", "editor.tabsize",
          "EDITOR.TABSIZE", "editor.tabSize ", "Type", "no.such.setting"}

CatalogInit ==
    /\ ResolverIdle
    /\ CatalogIdle
    /\ AnalyzerIdle
    /\ ScoreIdle
    /\ PathIdle
    /\ EditorIdle
    /\ ConfigIdle

\* one call getConfigDocumentation(key) in each version
Lookup ==
    \E key \in LookupKeys :
        /\ lookupKey' = key
        /\ doc' = getConfigDocumentation(key)
        /\ doc_p3' = getConfigDocumentation_p3(key)
        /\ UNCHANGED <<resolverVars, analyzerVars, scoreVars, pathVars, editorVars, configVars>>

CatalogSpec == CatalogInit /\ [][Lookup]_vars

\* the entry stored under a declared name
StoredEntry(table, key) ==
    [kind |-> "entry",
     value |-> table[CHOOSE i \in DOMAIN table : table[i].key = key].value]

\* C10: the lookup returns exactly the stored entry for every declared name,
\* and the sentinel entry for every other string, the names of inherited
\* members such as constructor and toString included.
C10_ExactKeyLookup ==
    (doc # NotCalled) =>
        /\ doc = IF lookupKey \in OwnKeys(configDocs)
                 THEN StoredEntry(configDocs, lookupKey) ELSE NoDocumentation
        /\ doc_p3 = IF lookupKey \in OwnKeys(configDocs_p3)
                    THEN StoredEntry(configDocs_p3, lookupKey) ELSE NoDocumentation

-----------------------------------------------------------------------------
\* ProjectAnalyzer.analyzeProject of src/src/extension.ts.  src/unnamed/part_003
\* has no analyzer.  Names and patterns are sequences of characters.

\* String.prototype.endsWith, includes, slice(0, -1) and replace with a
\* string pattern, which replaces the first occurrence only
endsWith(s, c) == Len(s) > 0 /\ s[Len(s)] = c

includes(s, c) == \E i \in 1..Len(s) : s[i] = c

dropLast(s) == SubSeq(s, 1, Len(s) - 1)

replaceFirst(s, c, by) ==
    IF includes(s, c)
    THEN LET i == Min({j \in 1..Len(s) : s[j] = c})
         IN SubSeq(s, 1, i - 1) \o by \o SubSeq(s, i + 1, Len(s))
    ELSE s

\* one regular-expression atom against one character: a dot takes any
\* character (entry names hold no line terminator), a letter takes itself
atomMatches(a, c) == a = "." \/ a = c

\* the regular expression re, read from its i-th character, matches the text
\* s from its j-th character on (not necessarily to the end of s); an atom
\* followed by a star repeats any number of times
RECURSIVE matchHere(_, _, _, _)
matchHere(re, i, s, j) ==
    IF i > Len(re) THEN TRUE
    ELSE IF At(re, i + 1) = "*"
    THEN \E k \in j..(Len(s) + 1) :
            /\ \A m \in j..(k - 1) : atomMatches(re[i], s[m])
            /\ matchHere(re, i + 2, s, k)
    ELSE /\ j <= Len(s)
         /\ atomMatches(re[i], s[j])
         /\ matchHere(re, i + 1, s, j + 1)

\* RegExp.prototype.test of an expression without anchors: a match may
\* start anywhere in the text
regexTest(re, s) == \E j \in 1..(Len(s) + 1) : matchHere(re, 1, s, j)

\* the declared project types, in the order of the array literal
projectTypes == <<
    [name |-> "Node.js",
     files |-> <<<<"p", "a", "c", "k", "a", "g", "e", ".", "j", "s", "o", "n">>>>,
     patterns |-> <<<<"n", "o", "d", "e", "_", "m", "o", "d", "u", "l", "e", "s", "/">>,
                  <<"*", ".", "j", "s">>,
                  <<"*", ".", "t", "s">>>>],
    [name |-> "React",
     files |-> <<<<"p", "a", "c", "k", "a", "g", "e", ".", "j", "s", "o", "n">>>>,
     patterns |-> <<<<"s", "r", "c", "/">>,
                  <<"p", "u", "b", "l", "i", "c", "/">>,
                  <<"*", ".", "j", "s", "x">>,
                  <<"*", ".", "t", "s", "x">>>>],
    [name |-> "Python",
     files |-> <<<<"r", "e", "q", "u", "i", "r", "e", "m", "e", "n", "t", "s", ".", "t", "x", "t">>,
               <<"s", "e", "t", "u", "p", ".", "p", "y">>,
               <<"p", "y", "p", "r", "o", "j", "e", "c", "t", ".", "t", "o", "m", "l">>>>,
     patterns |-> <<<<"*", ".", "p", "y">>,
                  <<"_", "_", "p", "y", "c", "a", "c", "h", "e", "_", "_", "/">>>>] >>

\* names a directory entry may have: the declared markers and directories,
\* source files of each declared extension, and a file no pattern is about
EntryNames == {
    <<"p", "a", "c", "k", "a", "g", "e", ".", "j", "s", "o", "n">>,
    <<"n", "o", "d", "e", "_", "m", "o", "d", "u", "l", "e", "s">>,
    <<"s", "r", "c">>,
    <<"p", "u", "b", "l", "i", "c">>,
    <<"r", "e", "q", "u", "i", "r", "e", "m", "e", "n", "t", "s", ".", "t", "x", "t">>,
    <<"s", "e", "t", "u", "p", ".", "p", "y">>,
    <<"p", "y", "p", "r", "o", "j", "e", "c", "t", ".", "t", "o", "m", "l">>,
    <<"_", "_", "p", "y", "c", "a", "c", "h", "e", "_", "_">>,
    <<"a", ".", "j", "s">>,
    <<"a", ".", "t", "s">>,
    <<"a", ".", "j", "s", "x">>,
    <<"a", ".", "t", "s", "x">>,
    <<"a", ".", "p", "y">>,
    <<"R", "E", "A", "D", "M", "E", ".", "m", "d">> }

\* further project types the scoring loop is applied to: one of one marker
\* and one directory pattern, one that declares nothing, one of ten checks,
\* and one whose pattern has neither separator nor wildcard
MarkerAndDirectory ==
    [name |-> "MarkerAndDirectory",
     files |-> <<<<"p", "a", "c", "k", "a", "g", "e", ".", "j", "s", "o", "n">>>>,
     patterns |-> <<<<"s", "r", "c", "/">>>>]

DeclaresNothing == [name |-> "Nothing", files |-> <<>>, patterns |-> <<>>]

TenChecks ==
    [name |-> "TenChecks",
     files |-> <<<<"p", "a", "c", "k", "a", "g", "e", ".", "j", "s", "o", "n">>,
               <<"r", "e", "q", "u", "i", "r", "e", "m", "e", "n", "t", "s", ".", "t", "x", "t">>,
               <<"s", "e", "t", "u", "p", ".", "p", "y">>,
               <<"p", "y", "p", "r", "o", "j", "e", "c", "t", ".", "t", "o", "m", "l">>>>,
     patterns |-> <<<<"n", "o", "d", "e", "_", "m", "o", "d", "u", "l", "e", "s", "/">>,
                  <<"s", "r", "c", "/">>,
                  <<"p", "u", "b", "l", "i", "c", "/">>,
                  <<"_", "_", "p", "y", "c", "a", "c", "h", "e", "_", "_", "/">>,
                  <<"*", ".", "m", "d">>,
                  <<"*", ".", "j", "s", "x">>>>]

PlainPattern ==
    [name |-> "PlainPattern",
     files |-> <<>>,
     patterns |-> <<<<"s", "r", "c">>>>]

Signatures ==
    {projectTypes[i] : i \in 1..Len(projectTypes)}
    \cup {MarkerAndDirectory, DeclaresNothing, TenChecks, PlainPattern}

\* new RegExp(pattern.replace('*', '.*'))
newRegExp(pattern) == replaceFirst(pattern, "*", <<".", "*">>)

\* regex.test(f) for every pattern of Signatures and every entry name,
\* computed once
regexTests ==
    [pattern \in UNION {{type.patterns[k] : k \in DOMAIN type.patterns} :
                            type \in Signatures} |->
        [f \in EntryNames |-> regexTest(newRegExp(pattern), f)]]

\* regex.test(f) for the expression made from pattern
test(pattern, f) ==
    IF pattern \in DOMAIN regexTests /\ f \in EntryNames
    THEN regexTests[pattern][f]
    ELSE regexTest(newRegExp(pattern), f)

\* fs.existsSync(path.join(workspacePath, file)): the entry can be reached
\* even where the directory itself cannot be listed
existsSync(status, entries, file) ==
    status \in {"ok", "unlistable"} /\ file \in entries

\* fs.readdirSync(workspacePath): the names of the entries, or an exception
readdirSync(status, entries) ==
    IF status = "ok" THEN [ok |-> TRUE, files |-> entries]
    ELSE [ok |-> FALSE, files |-> {}]

\* a pattern compared with the entry names without removing its separator
patternMatchesUnstripped(pattern, files) ==
    IF endsWith(pattern, "/") THEN \E f \in files : f = pattern
    ELSE IF includes(pattern, "*")
    THEN \E f \in files : test(pattern, f)
    ELSE FALSE

\* the test of one pattern in the loop over type.patterns
patternMatches(pattern, files) ==
    IF endsWith(pattern, "/") THEN \E f \in files : f = dropLast(pattern)
    ELSE IF includes(pattern, "*")
    THEN \E f \in files : test(pattern, f)
    ELSE FALSE

\* detectedFiles after the loop over type.files
detectedFiles(type, status, entries) ==
    Cardinality({i \in DOMAIN type.files :
                    existsSync(status, entries, type.files[i])})

\* a count that grows by one for every entry a pattern matches
detectedPatternsPerEntry(type, listing) ==
    IF listing.ok
    THEN Cardinality({<<i, f>> \in (DOMAIN type.patterns) \X listing.files :
                        patternMatches(type.patterns[i], {f})})
    ELSE 0

\* detectedPatterns after the try block: the loop over type.patterns is
\* skipped when readdirSync throws
detectedPatterns(type, listing) ==
    IF listing.ok
    THEN Cardinality({i \in DOMAIN type.patterns :
                        patternMatches(type.patterns[i], listing.files)})
    ELSE 0

\* (totalDetected / totalChecks) * 100 as the fraction num / den.  For
\* every totalChecks below 200 the double the code computes compares with
\* 30, and with the double of another type, as the fraction does.
confidenceOf(totalDetected, totalChecks) ==
    IF totalChecks > 0 THEN [num |-> 100 * totalDetected, den |-> totalChecks]
    ELSE [num |-> 0, den |-> 1]

\* a.confidence > b.confidence
greaterThan(a, b) == a.num * b.den > b.num * a.den

\* a threshold that the confidence may also equal
detectedAtThreshold(confidence) ==
    ~ greaterThan([num |-> 30, den |-> 1], confidence)

\* type.detected = type.confidence > 30
detectedOf(confidence) == greaterThan(confidence, [num |-> 30, den |-> 1])

\* one pass of the loop over projectTypes: the scored type, the two
\* counters, and what readdirSync gave
scoreType(type, status, entries) ==
    LET listing == readdirSync(status, entries)
        nFiles == detectedFiles(type, status, entries)
        nPatterns == detectedPatterns(type, listing)
        totalChecks == Len(type.files) + Len(type.patterns)
        totalDetected == nFiles + nPatterns
        confidence == confidenceOf(totalDetected, totalChecks)
    IN [type |-> [name |-> type.name, files |-> type.files,
                  patterns |-> type.patterns, confidence |-> confidence,
                  detected |-> detectedOf(confidence)],
        detectedFiles |-> nFiles,
        detectedPatterns |-> nPatterns,
        files |-> listing]

\* an analysis that returns the detected types only
analyzeProjectDetectedOnly(status, entries) ==
    [kind |-> "returned",
     types |-> SelectSeq([i \in 1..Len(projectTypes) |->
                             scoreType(projectTypes[i], status, entries).type],
                         LAMBDA t : t.detected)]

\* an analysis whose listing is not inside a try block
analyzeProjectUncaught(status, entries) ==
    IF readdirSync(status, entries).ok
    THEN [kind |-> "returned",
          types |-> [i \in 1..Len(projectTypes) |->
                        scoreType(projectTypes[i], status, entries).type]]
    ELSE [kind |-> "rejected", types |-> <<>>]

\* what analyzeProject returns when the directory does not change while
\* it runs
analyzeProject(status, entries) ==
    [kind |-> "returned",
     types |-> [i \in 1..Len(projectTypes) |->
                   scoreType(projectTypes[i], status, entries).type]]

\* the reducer that keeps the earlier type unless a later one is greater
keepFirstGreatest(prev, current) ==
    IF greaterThan(current.confidence, prev.confidence) THEN current ELSE prev

\* the reducer of createRecommendedSettings
keepGreater(prev, current) ==
    IF greaterThan(prev.confidence, current.confidence) THEN prev ELSE current

\* Array.prototype.reduce without an initial value, on a non-empty array
RECURSIVE reduceFrom(_, _, _)
reduceFrom(acc, types, i) ==
    IF i > Len(types) THEN acc
    ELSE reduceFrom(keepGreater(acc, types[i]), types, i + 1)

\* the message createRecommendedSettings shows for an analysis
choosePrimary(types) ==
    LET detectedTypes == SelectSeq(types, LAMBDA t : t.detected)
    IN IF Len(detectedTypes) = 0 THEN [kind |-> "noneDetected", name |-> ""]
       ELSE [kind |-> "primary",
             name |-> reduceFrom(detectedTypes[1], detectedTypes, 2).name]

MaxEntries == 4

Directories ==
    {<<"noFolder", {}>>, <<"missing", {}>>}
    \cup {<<status, entries>> \in {"ok", "unlistable"} \X (SUBSET EntryNames) :
            Cardinality(entries) <= MaxEntries}

AnalyzerInit ==
    /\ \E d \in Directories : dirStatus = d[1] /\ fs = d[2]
    /\ pc = 0
    /\ listed = <<>>
    /\ tally = <<>>
    /\ analysis = NotCalled
    /\ primaryType = NotCalled
    /\ fsChanges = 0
    /\ ResolverIdle
    /\ CatalogIdle
    /\ ScoreIdle
    /\ PathIdle
    /\ EditorIdle
    /\ ConfigIdle

\* the counters and listings of one whole analysis of an unchanging directory
Scored(status, entries) ==
    [i \in 1..Len(projectTypes) |-> scoreType(projectTypes[i], status, entries)]

\* a call that leaves its listing behind as an entry of the directory
AnalyzeProjectCaching ==
    /\ dirStatus # "noFolder"
    /\ analysis' = analyzeProject(dirStatus, fs)
    /\ LET passes == Scored(dirStatus, fs)
       IN /\ listed' = [i \in 1..Len(projectTypes) |-> passes[i].files]
          /\ tally' = [i \in 1..Len(projectTypes) |->
                          [detectedFiles |-> passes[i].detectedFiles,
                           detectedPatterns |-> passes[i].detectedPatterns]]
    /\ fs' = fs \cup {<<"_", "_", "p", "y", "c", "a", "c", "h", "e", "_", "_">>}
    /\ UNCHANGED <<dirStatus, pc, primaryType, fsChanges>>
    /\ UNCHANGED <<resolverVars, catalogVars, scoreVars, pathVars, editorVars, configVars>>

\* one call analyzeProject(workspacePath)
AnalyzeProject ==
    /\ dirStatus # "noFolder"
    /\ analysis' = analyzeProject(dirStatus, fs)
    /\ LET passes == Scored(dirStatus, fs)
       IN /\ listed' = [i \in 1..Len(projectTypes) |-> passes[i].files]
          /\ tally' = [i \in 1..Len(projectTypes) |->
                          [detectedFiles |-> passes[i].detectedFiles,
                           detectedPatterns |-> passes[i].detectedPatterns]]
    /\ UNCHANGED <<dirStatus, fs, pc, primaryType, fsChanges>>
    /\ UNCHANGED <<resolverVars, catalogVars, scoreVars, pathVars, editorVars, configVars>>

\* the command vscode-settings.createRecommendedSettings
CreateRecommendedSettings ==
    /\ IF dirStatus = "noFolder"
       THEN /\ primaryType' = [kind |-> "noWorkspaceFolder", name |-> ""]
            /\ UNCHANGED <<analysis, listed, tally>>
       ELSE LET passes == Scored(dirStatus, fs)
            IN /\ analysis' = analyzeProject(dirStatus, fs)
               /\ listed' = [i \in 1..Len(projectTypes) |-> passes[i].files]
               /\ tally' = [i \in 1..Len(projectTypes) |->
                               [detectedFiles |-> passes[i].detectedFiles,
                                detectedPatterns |-> passes[i].detectedPatterns]]
               /\ primaryType' = choosePrimary(analysis'.types)
    /\ UNCHANGED <<dirStatus, fs, pc, fsChanges>>
    /\ UNCHANGED <<resolverVars, catalogVars, scoreVars, pathVars, editorVars, configVars>>

AnalyzerSpec == AnalyzerInit /\ [][AnalyzeProject \/ CreateRecommendedSettings]_vars

-----------------------------------------------------------------------------
\* One pass of the scoring loop as a function of the project type and the
\* directory, applied to every type of Signatures.

MaxScoreEntries == 3

ScoreInit ==
    /\ signature \in Signatures
    /\ \E d \in Directories : /\ d[1] # "noFolder"
                              /\ Cardinality(d[2]) <= MaxScoreEntries
                              /\ dirStatus = d[1]
                              /\ fs = d[2]
    /\ scored = NotCalled
    /\ pc = 0
    /\ listed = <<>>
    /\ tally = <<>>
    /\ analysis = NotCalled
    /\ primaryType = NotCalled
    /\ fsChanges = 0
    /\ ResolverIdle
    /\ CatalogIdle
    /\ PathIdle
    /\ EditorIdle
    /\ ConfigIdle

\* one pass of the loop body for the type signature
ScoreType ==
    /\ scored' = [kind |-> "scored"] @@ scoreType(signature, dirStatus, fs)
    /\ UNCHANGED <<signature, analyzerVars, resolverVars, catalogVars, pathVars, editorVars, configVars>>

ScoreSpec == ScoreInit /\ [][ScoreType]_vars

HasScored == scored # NotCalled

\* the declared markers that exist, and the declared patterns that at least
\* one entry of the listing satisfies
MatchedFiles == {i \in DOMAIN signature.files : signature.files[i] \in fs}

MatchedPatterns ==
    {i \in DOMAIN signature.patterns :
        \E f \in scored.files.files : patternMatches(signature.patterns[i], {f})}

Declared == Len(signature.files) + Len(signature.patterns)

\* C11: the confidence of a scored type is 100 times the number of declared
\* markers and patterns that matched, over the number declared; a marker or
\* pattern counts once however many entries satisfy it, so the confidence
\* lies between 0 and 100; a type that declares nothing has confidence 0
\* and is not detected.
C11_ConfidenceIsMatchedShare ==
    HasScored =>
        LET c == scored.type.confidence
            matched == Cardinality(MatchedFiles) + Cardinality(MatchedPatterns)
        IN /\ scored.detectedFiles = Cardinality(MatchedFiles)
           /\ scored.detectedPatterns = Cardinality(MatchedPatterns)
           /\ c.den > 0
           /\ IF Declared > 0
              THEN c.num * Declared = 100 * matched * c.den
              ELSE c.num = 0 /\ ~ scored.type.detected
           /\ 0 <= c.num /\ c.num <= 100 * c.den

\* a pattern that two entries satisfy has counted once, and a type that
\* declares nothing has been scored
C11_Witness ==
    /\ HasScored
    /\ signature = projectTypes[1]
    /\ \E i \in MatchedPatterns :
          \E f, g \in fs : /\ f # g
                           /\ patternMatches(signature.patterns[i], {f})
                           /\ patternMatches(signature.patterns[i], {g})
    /\ scored.detectedPatterns = 1

\* C12: a scored type is detected exactly when its confidence is above 30,
\* that is when 100 times the matched checks exceeds 30 times the declared
\* checks; a confidence of exactly 30 is not detected.
C12_DetectedAboveThirty ==
    (HasScored /\ Declared > 0) =>
        (scored.type.detected <=>
            100 * (scored.detectedFiles + scored.detectedPatterns) > 30 * Declared)

\* a type scored at exactly 30 percent is not detected
C12_Witness ==
    /\ HasScored
    /\ signature = TenChecks
    /\ scored.detectedFiles + scored.detectedPatterns = 3
    /\ ~ scored.type.detected

\* C15: a pattern that ends with the separator is matched exactly when the
\* listing holds an entry named as the pattern without its separator; a
\* type declaring only the marker package.json and the pattern of the
\* directory src scores 100 and is detected in a directory holding both.
C15_DirectoryPattern ==
    HasScored =>
        /\ \A i \in DOMAIN signature.patterns :
              endsWith(signature.patterns[i], "/") =>
                  (i \in MatchedPatterns <=>
                      (scored.files.ok /\ dropLast(signature.patterns[i]) \in fs))
        /\ (/\ signature = MarkerAndDirectory
            /\ dirStatus = "ok"
            /\ {<<"p", "a", "c", "k", "a", "g", "e", ".", "j", "s", "o", "n">>,
                <<"s", "r", "c">>} \subseteq fs)
           => /\ scored.type.confidence.num = 100 * scored.type.confidence.den
              /\ scored.type.detected

\* the type of one marker and one directory pattern, scored in a directory
\* that holds both
C15_Witness ==
    /\ HasScored
    /\ signature = MarkerAndDirectory
    /\ dirStatus = "ok"
    /\ {<<"p", "a", "c", "k", "a", "g", "e", ".", "j", "s", "o", "n">>,
        <<"s", "r", "c">>} \subseteq fs
    /\ scored.type.detected

-----------------------------------------------------------------------------
\* Claims about analyzeProject and createRecommendedSettings

Returned == analysis # NotCalled /\ analysis.kind = "returned"

C14_UnlistableDirectory ==
    (analysis # NotCalled /\ dirStatus \in {"missing", "unlistable"}) =>
        /\ analysis.kind = "returned"
        /\ Len(analysis.types) = Len(projectTypes)
        /\ \A i \in 1..Len(tally) : tally[i].detectedPatterns = 0
        /\ dirStatus = "missing" =>
              \A i \in 1..Len(analysis.types) :
                  /\ analysis.types[i].confidence.num = 0
                  /\ ~ analysis.types[i].detected

\* an analysis of a directory that cannot be listed although it holds an
\* entry a declared directory pattern names
C14_Witness ==
    /\ Returned
    /\ dirStatus = "unlistable"
    /\ <<"s", "r", "c">> \in fs
    /\ Len(tally) = 3

\* the first type, in the order returned, that is detected and that no
\* detected type exceeds in confidence
FirstGreatest(types) ==
    LET best == {i \in 1..Len(types) :
                    /\ types[i].detected
                    /\ \A j \in 1..Len(types) :
                          types[j].detected =>
                              ~ greaterThan(types[j].confidence, types[i].confidence)}
    IN types[Min(best)].name

\* C17: the primary type of createRecommendedSettings is the detected type
\* of greatest confidence, and among detected types of equal confidence the
\* one declared first.
C17_PrimaryIsFirstGreatest ==
    (primaryType # NotCalled /\ primaryType.kind = "primary") =>
        primaryType.name = FirstGreatest(analysis.types)

\* the name s ends with the characters suffix
endsWithSuffix(s, suffix) ==
    /\ Len(s) >= Len(suffix)
    /\ SubSeq(s, Len(s) - Len(suffix) + 1, Len(s)) = suffix

\* the declared patterns of a type that a listing satisfies when a wildcard
\* pattern stands for the names ending with what follows its star
SuffixMatched(type, files) ==
    {k \in DOMAIN type.patterns :
        LET pattern == type.patterns[k]
        IN IF endsWith(pattern, "/") THEN dropLast(pattern) \in files
           ELSE /\ pattern[1] = "*"
                /\ \E f \in files : endsWithSuffix(f, Tail(pattern))}

\* C20: a wildcard pattern, a star followed by an extension, is matched
\* exactly when some entry name of the listing ends with that extension.
C20_WildcardBySuffix ==
    (Returned /\ dirStatus = "ok") =>
        \A i \in 1..Len(tally) :
            tally[i].detectedPatterns
                = Cardinality(SuffixMatched(projectTypes[i], fs))

-----------------------------------------------------------------------------
\* analyzeProject pass by pass, beside another process that creates and
\* removes entries of the directory between the passes

MaxRaceEntries == 1

MaxFsChanges == 1

RaceInit ==
    /\ dirStatus = "ok"
    /\ fs \in {entries \in SUBSET EntryNames : Cardinality(entries) <= MaxRaceEntries}
    /\ pc = 0
    /\ listed = <<>>
    /\ tally = <<>>
    /\ analysis = NotCalled
    /\ primaryType = NotCalled
    /\ fsChanges = 0
    /\ ResolverIdle
    /\ CatalogIdle
    /\ ScoreIdle
    /\ PathIdle
    /\ EditorIdle
    /\ ConfigIdle

\* analyzeProject is called: projectTypes is built, nothing is scored yet
BeginAnalysis ==
    /\ pc = 0
    /\ pc' = 1
    /\ analysis' = [kind |-> "running", types |-> <<>>]
    /\ listed' = <<>>
    /\ tally' = <<>>
    /\ UNCHANGED <<dirStatus, fs, primaryType, fsChanges>>
    /\ UNCHANGED <<resolverVars, catalogVars, scoreVars, pathVars, editorVars, configVars>>

\* one pass of the loop over projectTypes; the last pass returns
ScoreNextType ==
    /\ pc \in 1..Len(projectTypes)
    /\ LET pass == scoreType(projectTypes[pc], dirStatus, fs)
       IN /\ analysis' = [kind |-> IF pc = Len(projectTypes)
                                   THEN "returned" ELSE "running",
                          types |-> Append(analysis.types, pass.type)]
          /\ listed' = Append(listed, pass.files)
          /\ tally' = Append(tally, [detectedFiles |-> pass.detectedFiles,
                                     detectedPatterns |-> pass.detectedPatterns])
    /\ pc' = IF pc = Len(projectTypes) THEN 0 ELSE pc + 1
    /\ UNCHANGED <<dirStatus, fs, primaryType, fsChanges>>
    /\ UNCHANGED <<resolverVars, catalogVars, scoreVars, pathVars, editorVars, configVars>>

\* another process creates or removes one entry of the directory
DirectoryChanges ==
    /\ fsChanges < MaxFsChanges
    /\ fsChanges' = fsChanges + 1
    /\ \E name \in EntryNames :
          fs' = IF name \in fs THEN fs \ {name} ELSE fs \cup {name}
    /\ UNCHANGED <<dirStatus, pc, listed, tally, analysis, primaryType>>
    /\ UNCHANGED <<resolverVars, catalogVars, scoreVars, pathVars, editorVars, configVars>>

RaceSpec ==
    RaceInit /\ [][BeginAnalysis \/ ScoreNextType \/ DirectoryChanges]_vars

\* C16: one call of analyzeProject lists the directory once, so every
\* returned type was scored against the same listing even when another
\* process changes the directory while the call runs.
C16_OneSnapshot ==
    Returned => \A i, j \in 1..Len(listed) : listed[i] = listed[j]

-----------------------------------------------------------------------------
\* isConfigFile, the same text in src/src/extension.ts and in
\* src/unnamed/part_003.  A path is a sequence of characters with the
\* separator of path.posix.

\* String.prototype.includes with a text argument
includesText(s, text) ==
    \E i \in 1..(Len(s) - Len(text) + 1) : SubSeq(s, i, i + Len(text) - 1) = text

\* path.basename: what follows the last separator, trailing separators
\* not counted
basename(p) ==
    LET ends == {i \in 1..Len(p) : p[i] # "/"}
    IN IF ends = {} THEN <<>>
       ELSE LET end == CHOOSE i \in ends : \A j \in ends : j <= i
                seps == {i \in 1..end : p[i] = "/"}
                start == IF seps = {} THEN 1
                         ELSE 1 + (CHOOSE i \in seps : \A j \in seps : j <= i)
            IN SubSeq(p, start, end)

configFileNames == <<
    <<"s", "e", "t", "t", "i", "n", "g", "s", ".", "j", "s", "o", "n">>,
    <<"l", "a", "u", "n", "c", "h", ".", "j", "s", "o", "n">>,
    <<"e", "x", "t", "e", "n", "s", "i", "o", "n", "s", ".", "j", "s", "o", "n">> >>

DotVscode == <<".", "v", "s", "c", "o", "d", "e">>

isConfigFile(path) ==
    LET fileName == basename(path)
        isInVscodeDir == includesText(path, DotVscode)
    IN isInVscodeDir /\ \E i \in DOMAIN configFileNames : configFileNames[i] = fileName

\* names of directories and files that paths are made of
PathSegments == {
    <<"p">>,
    <<".", "v", "s", "c", "o", "d", "e">>,
    <<"m", "y", ".", "v", "s", "c", "o", "d", "e">>,
    <<".", "v", "s", "c", "o", "d", "e", "-", "o", "l", "d">>,
    <<"s", "e", "t", "t", "i", "n", "g", "s", ".", "j", "s", "o", "n">>,
    <<"l", "a", "u", "n", "c", "h", ".", "j", "s", "o", "n">>,
    <<"e", "x", "t", "e", "n", "s", "i", "o", "n", "s", ".", "j", "s", "o", "n">>,
    <<"t", "a", "s", "k", "s", ".", "j", "s", "o", "n">>,
    <<"s", "e", "t", "t", "i", "n", "g", "s", ".", "j", "s", "o", "n", ".", "b", "a", "k">>,
    <<"x", "s", "e", "t", "t", "i", "n", "g", "s", ".", "j", "s", "o", "n">> }

MaxDepth == 3

\* the absolute path of the given segments
RECURSIVE JoinPath(_)
JoinPath(segments) ==
    IF segments = <<>> THEN <<>>
    ELSE <<"/">> \o Head(segments) \o JoinPath(Tail(segments))

Paths == {JoinPath(segments) :
            segments \in UNION {[1..n -> PathSegments] : n \in 1..MaxDepth}}

PathInit ==
    /\ filePath \in Paths
    /\ configFile = NotCalled
    /\ ResolverIdle
    /\ CatalogIdle
    /\ AnalyzerIdle
    /\ ScoreIdle
    /\ EditorIdle
    /\ ConfigIdle

\* one call isConfigFile(filePath)
IsConfigFile ==
    /\ configFile' = [kind |-> "returned", value |-> isConfigFile(filePath)]
    /\ UNCHANGED <<filePath, resolverVars, catalogVars, analyzerVars, scoreVars, editorVars, configVars>>

PathSpec == PathInit /\ [][IsConfigFile]_vars

\* some directory on the path is named .vscode
InVscodeDirectory(p) ==
    \E i \in 1..Len(p) :
        LET j == i + Len(DotVscode) - 1
        IN /\ j < Len(p)
           /\ SubSeq(p, i, j) = DotVscode
           /\ (i = 1 \/ p[i - 1] = "/")
           /\ p[j + 1] = "/"

\* C18: isConfigFile answers true exactly when the base name of the path is
\* one of the fixed configuration names and the file lies in a directory
\* named .vscode; the text .vscode inside another name does not count.
C18_ManagedConfigFile ==
    configFile # NotCalled =>
        (configFile.value <=>
            /\ \E i \in DOMAIN configFileNames : configFileNames[i] = basename(filePath)
            /\ InVscodeDirectory(filePath))

-----------------------------------------------------------------------------
\* The Prop. Helper panel: HelloWorldProvider, updatePropHelperContent,
\* updatePropHelperVisibility and the five event listeners of activate, in
\* src/src/extension.ts and in src/unnamed/part_003.

\* an argument or field that may be undefined
Undef == [defined |-> FALSE]

Def(x) == [defined |-> TRUE, value |-> x]

\* doc.description, doc.type, doc.enum, doc.enumDescriptions: undefined where
\* the entry has no such field, and where doc is a member inherited from
\* Object.prototype
docField(entry, name) ==
    IF entry.kind = "entry" /\ name \in DOMAIN entry.value
    THEN Def(entry.value[name])
    ELSE Undef

\* the string of a key, for the keys of EditorDocuments
keyStrings == <<
    [chars |-> <<"a">>,
     string |-> "a"],
    [chars |-> <<"e", "d", "i", "t", "o", "r", ".", "f", "o", "n", "t", "S",
                 "i", "z", "e">>,
     string |-> "editor.fontSize"],
    [chars |-> <<"f", "i", "l", "e", "s", ".", "a", "u", "t", "o", "S", "a",
                 "v", "e">>,
     string |-> "files.autoSave"],
    [chars |-> <<"c", "o", "n", "s", "t", "r", "u", "c", "t", "o", "r">>,
     string |-> "constructor"] >>

keyString(chars) ==
    keyStrings[CHOOSE i \in DOMAIN keyStrings : keyStrings[i].chars = chars].string

\* enumDescriptions?.[enumValue] || ''
enumDescription(enumDescriptions, enumValue) ==
    IF /\ enumDescriptions.defined
       /\ \E i \in DOMAIN enumDescriptions.value :
             enumDescriptions.value[i][1] = enumValue
    THEN LET i == CHOOSE i \in DOMAIN enumDescriptions.value :
                      enumDescriptions.value[i][1] = enumValue
         IN enumDescriptions.value[i][2]
    ELSE ""

\* a tree item, by the parts its label is made of
TreeItem(parts) == [label |-> parts]

\* HelloWorldProvider.updateContent of src/src/extension.ts: the new content
updateContent(key, value, description, type, enumValues, enumDescriptions) ==
    << TreeItem(<<key, ": ", value>>),
       TreeItem(<<"Type: ",
                  IF type.defined /\ type.value # "" THEN type.value ELSE "unknown">>),
       TreeItem(<<"Description: ", description>>) >>
    \o (IF enumValues.defined /\ Len(enumValues.value) > 0
        THEN <<TreeItem(<<"Possible Values:">>)>>
             \o [i \in 1..Len(enumValues.value) |->
                   LET desc == enumDescription(enumDescriptions, enumValues.value[i])
                   IN TreeItem(<<"  ", enumValues.value[i],
                                 IF desc # "" THEN <<": ", desc>> ELSE <<>>  >>)]
        ELSE <<>>)

\* HelloWorldProvider.clearContent of src/src/extension.ts
clearContent == <<>>

\* HelloWorldProvider.updateContent of src/unnamed/part_003
updateContent_p3(key, value, description, valueType, enumValues, enumDescriptions) ==
    [currentKey |-> key,
     currentValue |-> value,
     currentDescription |-> description,
     currentValueType |-> valueType,
     currentEnumValues |-> enumValues,
     currentEnumDescriptions |-> enumDescriptions,
     hasContent |-> TRUE]

\* HelloWorldProvider.clearContent of src/unnamed/part_003, and the
\* provider as constructed
clearContent_p3 ==
    [currentKey |-> "",
     currentValue |-> "",
     currentDescription |-> "",
     currentValueType |-> "",
     currentEnumValues |-> Undef,
     currentEnumDescriptions |-> Undef,
     hasContent |-> FALSE]

NoEditor == [kind |-> "undefined"]

\* a text editor: the scheme and path of its document's uri, the lines of
\* the document, and the line of selection.active
TextEditor(scheme, path, lines, line) ==
    [kind |-> "editor", scheme |-> scheme, path |-> path,
     document |-> lines, line |-> line]

OpenBrace == <<"{">>

FontSizeLine == <<" ", " ", Quote, "e", "d", "i", "t", "o", "r", ".", "f",
                  "o", "n", "t", "S", "i", "z", "e", Quote, ":", " ", "1",
                  "4", ",">>

AutoSaveLine == <<Quote, "f", "i", "l", "e", "s", ".", "a", "u", "t", "o",
                  "S", "a", "v", "e", Quote, ":", " ", Quote, "o", "f", "f",
                  Quote>>

ConstructorLine == <<Quote, "c", "o", "n", "s", "t", "r", "u", "c", "t", "o",
                     "r", Quote, ":", " ", "1">>

ObjectLine == <<"{", Quote, "a", Quote, ":", " ", "1", "}">>

EmptyLine == <<>>

\* the texts an editor shows
EditorDocuments ==
    { <<OpenBrace, FontSizeLine>>,
      <<ObjectLine, EmptyLine>>,
      <<AutoSaveLine>>,
      <<ConstructorLine>>,
      <<EmptyLine>> }

SettingsPath == <<"/", "p", "/", ".", "v", "s", "c", "o", "d", "e", "/", "s",
                  "e", "t", "t", "i", "n", "g", "s", ".", "j", "s", "o", "n">>

SourcePath == <<"/", "p", "/", "t", "a", "s", "k", "s", ".", "j", "s", "o",
                "n">>

BackupPath == <<"/", "m", "y", ".", "v", "s", "c", "o", "d", "e", "/", "l",
                "a", "u", "n", "c", "h", ".", "j", "s", "o", "n">>

\* the paths of the documents: a managed file, a file isConfigFile
\* refuses, and a file it accepts outside a directory named .vscode
EditorPaths == {SettingsPath, SourcePath, BackupPath}

\* uri.scheme of a file on disk, and of a document that is none
Schemes == {"file", "untitled"}

Editors ==
    {TextEditor(scheme, path, lines, line) :
        scheme \in Schemes, path \in EditorPaths,
        lines \in EditorDocuments, line \in 0..1}

ValidEditors == {e \in Editors : e.line < Len(e.document)}

\* the call of updateContent of src/src/extension.ts for a resolved
\* property and the entry getConfigDocumentation gave for its key
showProperty(resolved, entry) ==
    updateContent(resolved.key, resolved.value,
                  docField(entry, "description"),
                  docField(entry, "type"),
                  docField(entry, "enum"),
                  docField(entry, "enumDescriptions"))

\* a branch on the resolution that leaves a shown property in place where
\* nothing is resolved
showResolutionKeep(resolved, current) ==
    IF resolved # Null
    THEN [found |-> "property",
          content |-> showProperty(resolved,
                          getConfigDocumentation(keyString(resolved.key)))]
    ELSE [found |-> "null", content |-> current]

\* if (property) ... else ... of updatePropHelperContent of
\* src/src/extension.ts: what was found and the content left
showResolution(resolved, current) ==
    IF resolved # Null
    THEN [found |-> "property",
          content |-> showProperty(resolved,
                          getConfigDocumentation(keyString(resolved.key)))]
    ELSE [found |-> "null", content |-> clearContent]

\* updatePropHelperContent of src/src/extension.ts for the active editor
\* and the content shown so far
updatePropHelperContent(editor, current) ==
    IF editor = NoEditor \/ ~ isConfigFile(editor.path)
    THEN [found |-> "noConfigFile", content |-> clearContent]
    ELSE showResolution(getPropertyAtPosition(editor.document, editor.line),
                        current)

\* valueTypeInfo of src/unnamed/part_003
valueTypeInfo(entry) ==
    IF docField(entry, "enum").defined
    THEN Def([type |-> docField(entry, "type"),
              enum |-> docField(entry, "enum").value])
    ELSE docField(entry, "type")

\* the calls that follow getConfigDocumentation in src/unnamed/part_003.
\* Where doc.description is undefined, doc.description.substring throws
\* before updateContent is called and the provider keeps what it held.
showProperty_p3(resolved, entry, current) ==
    IF ~ docField(entry, "description").defined THEN current
    ELSE updateContent_p3(resolved.key, resolved.value,
                          docField(entry, "description"),
                          valueTypeInfo(entry),
                          docField(entry, "enum"),
                          docField(entry, "enumDescriptions"))

\* if (property) ... else ... of updatePropHelperContent of
\* src/unnamed/part_003
showResolution_p3(resolved, current) ==
    IF resolved # Null
    THEN [found |-> "property",
          content |-> showProperty_p3(resolved,
                          getConfigDocumentation_p3(keyString(resolved.key)),
                          current)]
    ELSE [found |-> "null", content |-> clearContent_p3]

\* updatePropHelperContent of src/unnamed/part_003
updatePropHelperContent_p3(editor, current) ==
    IF editor = NoEditor \/ ~ isConfigFile(editor.path)
    THEN [found |-> "noConfigFile", content |-> clearContent_p3]
    ELSE showResolution_p3(
             getPropertyAtPosition_p3(editor.document, editor.line), current)

\* showHelper of updatePropHelperVisibility, the same in both versions
showHelper(editor) ==
    IF editor # NoEditor /\ editor.scheme = "file"
    THEN isConfigFile(editor.path)
    ELSE FALSE

\* updatePropHelperVisibility of src/src/extension.ts
updatePropHelperVisibility(editor, current) ==
    IF showHelper(editor) THEN updatePropHelperContent(editor, current)
    ELSE [found |-> "noConfigFile", content |-> clearContent]

\* updatePropHelperVisibility of src/unnamed/part_003
updatePropHelperVisibility_p3(editor, current) ==
    IF showHelper(editor) THEN updatePropHelperContent_p3(editor, current)
    ELSE [found |-> "noConfigFile", content |-> clearContent_p3]

\* what a handler leaves when its listener does not call it
Unhandled(was, current) == [found |-> was, content |-> current]

\* the two calls of activate in src/unnamed/part_003: updatePropHelperVisibility,
\* then updatePropHelperContent where the active editor shows a config file
activate_p3(editor) ==
    IF editor # NoEditor /\ isConfigFile(editor.path)
    THEN updatePropHelperContent_p3(editor, clearContent_p3)
    ELSE [found |-> "noConfigFile", content |-> clearContent_p3]

\* the providers as a handler leaves them
HandledInit(after, after_p3) ==
    /\ content = after.content
    /\ found = after.found
    /\ provider_p3 = after_p3.content
    /\ found_p3 = after_p3.found

\* activate with some editor active, or none
EditorInit ==
    /\ activeEditor \in ValidEditors \cup {NoEditor}
    /\ showPropHelper = showHelper(activeEditor)
    /\ HandledInit(updatePropHelperVisibility(activeEditor, clearContent),
                   activate_p3(activeEditor))
    /\ before = clearContent
    /\ before_p3 = clearContent_p3
    /\ ResolverIdle
    /\ CatalogIdle
    /\ AnalyzerIdle
    /\ ScoreIdle
    /\ PathIdle
    /\ ConfigIdle

\* the providers after an event: what they held when it arrived, and what
\* the handlers left
Handled(after, after_p3) ==
    /\ before' = content
    /\ before_p3' = provider_p3
    /\ content' = after.content
    /\ found' = after.found
    /\ provider_p3' = after_p3.content
    /\ found_p3' = after_p3.found

\* the listeners of onDidChangeActiveTextEditor, onDidOpenTextDocument and
\* onDidCloseTextDocument: updatePropHelperVisibility for the active editor
VisibilityListeners(editor) ==
    /\ showPropHelper' = showHelper(editor)
    /\ Handled(updatePropHelperVisibility(editor, content),
               updatePropHelperVisibility_p3(editor, provider_p3))

\* the events that run updatePropHelperVisibility: another editor, or none,
\* becomes active; a document is opened; a document is closed
VisibilityEvents ==
    {[event |-> "onDidChangeActiveTextEditor", editor |-> editor] :
        editor \in ValidEditors \cup {NoEditor}}
    \cup {[event |-> "onDidOpenTextDocument", editor |-> activeEditor],
          [event |-> "onDidCloseTextDocument", editor |-> activeEditor]}

\* onDidChangeActiveTextEditor, onDidOpenTextDocument, onDidCloseTextDocument
ChangeVisibility ==
    /\ \E e \in VisibilityEvents :
          /\ activeEditor' = e.editor
          /\ VisibilityListeners(e.editor)
    /\ UNCHANGED <<resolverVars, catalogVars, analyzerVars, scoreVars, pathVars,
                 configVars>>

\* the selection events: the cursor of the active editor moves to a line,
\* or the cursor of another visible editor moves, whose document has the
\* path given
SelectionEvents ==
    (IF activeEditor = NoEditor THEN {}
     ELSE {[editor |-> [activeEditor EXCEPT !.line = line],
            path |-> activeEditor.path] :
              line \in 0..(Len(activeEditor.document) - 1)})
    \cup {[editor |-> activeEditor, path |-> path] : path \in EditorPaths}

\* onDidChangeTextEditorSelection
ChangeTextEditorSelection ==
    /\ \E e \in SelectionEvents :
          /\ activeEditor' = e.editor
          /\ Handled(IF isConfigFile(e.path)
                     THEN updatePropHelperContent(e.editor, content)
                     ELSE Unhandled(found, content),
                     updatePropHelperContent_p3(e.editor, provider_p3))
    /\ UNCHANGED <<showPropHelper>>
    /\ UNCHANGED <<resolverVars, catalogVars, analyzerVars, scoreVars, pathVars,
                 configVars>>

\* the document events: the document of the active editor changes, or
\* another document, which has the path given
DocumentEvents ==
    (IF activeEditor = NoEditor THEN {}
     ELSE {[editor |-> editor, path |-> activeEditor.path,
            isActiveDocument |-> TRUE] :
              editor \in {e \in ValidEditors :
                            /\ e.scheme = activeEditor.scheme
                            /\ e.path = activeEditor.path}})
    \cup {[editor |-> activeEditor, path |-> path, isActiveDocument |-> FALSE] :
            path \in EditorPaths}

\* onDidChangeTextDocument
ChangeTextDocument ==
    /\ \E e \in DocumentEvents :
          /\ activeEditor' = e.editor
          /\ Handled(IF /\ e.editor # NoEditor
                        /\ e.isActiveDocument
                        /\ isConfigFile(e.path)
                     THEN updatePropHelperContent(e.editor, content)
                     ELSE Unhandled(found, content),
                     IF e.isActiveDocument
                     THEN updatePropHelperContent_p3(e.editor, provider_p3)
                     ELSE Unhandled(found_p3, provider_p3))
    /\ UNCHANGED <<showPropHelper>>
    /\ UNCHANGED <<resolverVars, catalogVars, analyzerVars, scoreVars, pathVars,
                 configVars>>

EditorSpec ==
    EditorInit /\ [][\/ ChangeVisibility
                     \/ ChangeTextEditorSelection
                     \/ ChangeTextDocument]_vars

\* C19: whenever the last cursor, edit or active-editor event that was
\* handled found no property to resolve, or no active managed config file,
\* the provider holds no content.
C19_NullClearsPanel ==
    /\ found \in {"null", "noConfigFile"} => content = <<>>
    /\ found_p3 \in {"null", "noConfigFile"} => ~ provider_p3.hasContent
    /\ (activeEditor = NoEditor \/ ~ isConfigFile(activeEditor.path)) =>
          (content = <<>> /\ ~ provider_p3.hasContent)

\* a property was shown, and the cursor then moved to a line where nothing
\* resolves
C19_Witness ==
    /\ activeEditor # NoEditor
    /\ activeEditor.scheme = "file"
    /\ activeEditor.path = SettingsPath
    /\ activeEditor.document = <<OpenBrace, FontSizeLine>>
    /\ activeEditor.line = 0
    /\ found = "null"
    /\ found_p3 = "null"
    /\ before # <<>>
    /\ before_p3.hasContent
    /\ content = <<>>

-----------------------------------------------------------------------------
(* Quoted tokens of a line                                                 *)

\* the number of quotes of s before index i
QuotesBefore(s, i) == Cardinality({k \in 1..(i - 1) : s[k] = Quote})

\* the quoted string tokens of s, as <<opening quote, closing quote>>: quotes
\* pair up from the left
Tokens(s) ==
    {<<i, NextQuote(s, i)>> : i \in {k \in 1..Len(s) :
        s[k] = Quote /\ QuotesBefore(s, k) % 2 = 0 /\ NextQuote(s, k) # 0}}

TokenContent(s, t) == SubSeq(s, t[1] + 1, t[2] - 1)

\* the tokens directly followed by a colon, white space allowed in between
KeyTokens(s) == {t \in Tokens(s) : At(s, SkipWhiteSpace(s, t[2] + 1)) = ":"}

LeftmostToken(T) == CHOOSE t \in T : \A u \in T : t[1] <= u[1]

\* key is the content of a quoted token of s, the leftmost one followed by a
\* colon when there is one
IsFirstKeyOf(key, s) ==
    /\ \E t \in Tokens(s) : key = TokenContent(s, t)
    /\ KeyTokens(s) # {} =>
          key = TokenContent(s, LeftmostToken(KeyTokens(s)))

\* C21: on a cursor line with several quoted strings, a resolved key is the
\* content of a quoted token of the line, the leftmost one directly followed
\* by a colon, and never text lying between two tokens
C21_FirstKeyOfLine ==
    (Called /\ OnLine /\ Cardinality(Tokens(CursorLine)) >= 2) =>
        /\ property.kind = "property" => IsFirstKeyOf(property.key, CursorLine)
        /\ property_p3.kind = "property" =>
              IsFirstKeyOf(property_p3.key, CursorLine)

-----------------------------------------------------------------------------
(* Failures inside the resolver                                            *)

\* some content a panel may hold when the resolver is called
SomeContent == <<TreeItem(<<"a", ": ", "1">>)>>

SomeContent_p3 == updateContent_p3("a", "1", Def("d"), Def("number"), Undef, Undef)

\* C22: the resolver returns for every document and every line index, a
\* property or null; for a line index outside the document, and where JSON
\* parsing fails with no key on the line, it returns null, and the branch of
\* updatePropHelperContent taken for that result clears the panel
C22_FailuresYieldNull ==
    Called =>
        /\ property.kind \in {"null", "property"}
        /\ property_p3.kind \in {"null", "property"}
        /\ ~ OnLine =>
              /\ property = Null
              /\ property_p3 = Null
              /\ showResolution(property, SomeContent).content = <<>>
              /\ ~ showResolution_p3(property_p3, SomeContent_p3).content.hasContent
        /\ (OnLine /\ ~ LineKey.haveKey /\ ~ Parsed.ok) => property_p3 = Null

\* the resolver was called for a line index outside a document whose lines
\* all hold a key
C22_Witness ==
    /\ Called
    /\ ~ OnLine
    /\ \A n \in 1..Len(document) : Tokens(document[n]) # {}
    /\ property = Null
    /\ property_p3 = Null

-----------------------------------------------------------------------------
(* Freshness of the panel                                                  *)

\* shown is what src/src/extension.ts displays for the text and the cursor
\* line of editor: nothing where nothing resolves, otherwise the resolved
\* key and value with the catalog entry of the key
FreshFor(editor, shown) ==
    shown = showResolution(getPropertyAtPosition(editor.document, editor.line),
                           shown).content

\* the same for the provider of src/unnamed/part_003
FreshFor_p3(resolved, shown) ==
    IF resolved = Null THEN ~ shown.hasContent
    ELSE /\ shown.hasContent
         /\ shown.currentKey = resolved.key
         /\ shown.currentValue = resolved.value
         /\ shown.currentDescription =
               docField(getConfigDocumentation_p3(keyString(resolved.key)),
                        "description")

\* C23: every event that leaves a managed config file of scheme file active,
\* cursor movements and edits of its document among them, leaves the panel
\* showing the resolution of the active document's text at the cursor line,
\* with the catalog entry of the resolved key
C23_NeverStale ==
    [][showHelper(activeEditor')
        => /\ FreshFor(activeEditor', content')
           /\ FreshFor_p3(getPropertyAtPosition_p3(activeEditor'.document,
                                                   activeEditor'.line),
                          provider_p3')]_vars

\* the part of C23 for src/src/extension.ts alone
C23_NeverStale_extension ==
    [][showHelper(activeEditor') => FreshFor(activeEditor', content')]_vars

-----------------------------------------------------------------------------
(* The analyzer and the resolver side by side                              *)

\* a workspace folder and an open document: any document over a folder that
\* holds package.json, or any folder beside a one-line document
ReadOnlyInit ==
    /\ \/ /\ document \in Documents
          /\ position \in -1..Len(document)
          /\ dirStatus = "ok"
          /\ fs = {<<"p", "a", "c", "k", "a", "g", "e", ".", "j", "s", "o", "n">>}
       \/ /\ document = <<FontSizeLine>>
          /\ position = 0
          /\ \E d \in Directories :
                d[1] # "noFolder" /\ dirStatus = d[1] /\ fs = d[2]
    /\ property = NotCalled
    /\ property_p3 = NotCalled
    /\ pc = 0
    /\ listed = <<>>
    /\ tally = <<>>
    /\ analysis = NotCalled
    /\ primaryType = NotCalled
    /\ fsChanges = 0
    /\ CatalogIdle
    /\ ScoreIdle
    /\ PathIdle
    /\ EditorIdle
    /\ ConfigIdle

ReadOnlySpec == ReadOnlyInit /\ [][ResolveAt \/ AnalyzeProject]_vars

\* C24: no call of analyzeProject creates, changes or removes an entry of
\* the workspace directory or changes whether it can be listed, and no call
\* of the resolver changes the text of the document or the cursor position
C24_ReadOnly ==
    [][/\ fs' = fs
       /\ dirStatus' = dirStatus
       /\ document' = document
       /\ position' = position]_vars

\* both were called: the analyzer on a directory with entries, the resolver
\* on a line of the document
C24_Witness ==
    /\ Returned
    /\ fs # {}
    /\ Called
    /\ OnLine
    /\ property # Null

-----------------------------------------------------------------------------
(* Shape of a resolved property                                            *)

\* a key that is not empty and holds no quote, with a value that is not empty
WellFormed(resolved) ==
    /\ resolved.key # <<>>
    /\ \A k \in 1..Len(resolved.key) : resolved.key[k] # Quote
    /\ resolved.value # <<>>

\* C25: every property the resolver returns has a non-empty key without a
\* double quote and a non-empty value; a line with a key and no value text
\* gives the sentinel, never the empty string
C25_NonEmptyKeyAndValue ==
    Called =>
        /\ property.kind = "property" => WellFormed(property)
        /\ property_p3.kind = "property" => WellFormed(property_p3)

\* the part of C25 for src/unnamed/part_003 alone
C25_NonEmptyKeyAndValue_p3 ==
    Called => (property_p3.kind = "property" => WellFormed(property_p3))

-----------------------------------------------------------------------------
(* The cursor line alone                                                   *)

\* C26: where the cursor line contains a quoted token, the resolver returns
\* what it returns for the document made of that line alone: the result
\* depends on no other line, whether or not the document parses
C26_LineAlone ==
    (Called /\ OnLine /\ Tokens(CursorLine) # {}) =>
        /\ property = getPropertyAtPosition(<<CursorLine>>, 0)
        /\ property_p3 = getPropertyAtPosition_p3(<<CursorLine>>, 0)

\* the part of C26 for src/src/extension.ts alone
C26_LineAlone_extension ==
    (Called /\ OnLine /\ Tokens(CursorLine) # {}) =>
        property = getPropertyAtPosition(<<CursorLine>>, 0)

\* C26 for the lines with a quoted token that is not empty
C26_LineAlone_nonEmptyToken ==
    (Called /\ OnLine /\ \E t \in Tokens(CursorLine) : t[2] > t[1] + 1) =>
        /\ property = getPropertyAtPosition(<<CursorLine>>, 0)
        /\ property_p3 = getPropertyAtPosition_p3(<<CursorLine>>, 0)

-----------------------------------------------------------------------------
(* Content and visibility                                                  *)

\* C27: whenever a provider holds content, the context key
\* vscode-settings.showPropHelper was last set to true: no content is shown
\* for an editor that failed the check of the scheme and of the managed path
C27_ContentOnlyWhenVisible ==
    /\ content # <<>> => showPropHelper
    /\ provider_p3.hasContent => showPropHelper

\* the part of C27 for src/src/extension.ts alone
C27_ContentOnlyWhenVisible_extension == content # <<>> => showPropHelper

-----------------------------------------------------------------------------
(* JSON.stringify with indentation, and object spread                      *)

EmptyObject == [t |-> "object", keys |-> <<>>, vals |-> <<>>]

\* the object { key: value }
ObjectOf(key, value) == [t |-> "object", keys |-> <<key>>, vals |-> <<value>>]

Number(n) == [t |-> "number", n |-> n]

\* the gap of JSON.stringify(value, null, 4)
Gap == <<" ", " ", " ", " ">>

RECURSIVE SerializeIndented(_, _)
RECURSIVE SerializeMembers(_, _, _, _)
RECURSIVE SerializeElements(_, _, _)

\* the members ks[i..] of the object v, one to a line at the indentation given
SerializeMembers(v, ks, i, indent) ==
    IF i > Len(ks) THEN <<>>
    ELSE (IF i > 1 THEN <<",", "\n">> ELSE <<>>)
         \o indent \o <<Quote>> \o ks[i] \o <<Quote, ":", " ">>
         \o SerializeIndented(GetProperty(v, ks[i]), indent)
         \o SerializeMembers(v, ks, i + 1, indent)

SerializeElements(elems, i, indent) ==
    IF i > Len(elems) THEN <<>>
    ELSE (IF i > 1 THEN <<",", "\n">> ELSE <<>>)
         \o indent \o SerializeIndented(elems[i], indent)
         \o SerializeElements(elems, i + 1, indent)

\* the text of v where the enclosing line is indented by indent
SerializeIndented(v, indent) ==
    CASE v.t = "object" /\ ObjectKeys(v) # <<>> ->
            <<"{", "\n">>
            \o SerializeMembers(v, ObjectKeys(v), 1, indent \o Gap)
            \o <<"\n">> \o indent \o <<"}">>
      [] v.t = "array" /\ v.elems # <<>> ->
            <<"[", "\n">>
            \o SerializeElements(v.elems, 1, indent \o Gap)
            \o <<"\n">> \o indent \o <<"]">>
      [] OTHER -> JSONstringify(v)

\* JSON.stringify(v, null, 4)
JSONstringifyIndented(v) == SerializeIndented(v, <<>>)

\* { ...target, ...source } continued from the key ks[i] of source: a key
\* target has keeps its place and takes the value of source
RECURSIVE CopyDataProperties(_, _, _, _)
CopyDataProperties(target, source, ks, i) ==
    IF i > Len(ks) THEN target
    ELSE LET m == PutMember(target.keys, target.vals, ks[i],
                            GetProperty(source, ks[i]))
         IN  CopyDataProperties([t |-> "object", keys |-> m.keys, vals |-> m.vals],
                                source, ks, i + 1)

\* { ...a, ...b }: the own enumerable properties of a, then those of b; a
\* number, a boolean or null has none, a string and an array have their
\* indices
Spread(a, b) ==
    LET first == CopyDataProperties(EmptyObject, a, ObjectKeys(a), 1)
    IN  CopyDataProperties(first, b, ObjectKeys(b), 1)

-----------------------------------------------------------------------------
(* The Config Files view and the command vscode-settings.createConfigFile, *)
(* the same text in src/src/extension.ts and in src/unnamed/part_003       *)

\* '{\n    \n}'
EmptySettingsText ==
    << "{", "\n", " ", " ", " ", " ", "\n", "}" >>

\* the initial content of launch.json
LaunchText ==
    << "{", "\n", " ", " ", " ", " ", "\"", "v", "e", "r", "s", "i",
       "o", "n", "\"", ":", " ", "\"", "0", ".", "2", ".", "0", "\"",
       ",", "\n", " ", " ", " ", " ", "\"", "c", "o", "n", "f", "i",
       "g", "u", "r", "a", "t", "i", "o", "n", "s", "\"", ":", " ", "[",
       "\n", " ", " ", " ", " ", " ", " ", " ", " ", "\n", " ", " ",
       " ", " ", "]", "\n", "}" >>

\* the initial content of extensions.json
ExtensionsText ==
    << "{", "\n", " ", " ", " ", " ", "\"", "r", "e", "c", "o", "m",
       "m", "e", "n", "d", "a", "t", "i", "o", "n", "s", "\"", ":", " ",
       "[", "\n", " ", " ", " ", " ", " ", " ", " ", " ", "\n", " ",
       " ", " ", " ", "]", "\n", "}" >>

\* the switch on fileName of createConfigFile
initialContent(fileName) ==
    CASE fileName = "settings.json"   -> EmptySettingsText
      [] fileName = "launch.json"     -> LaunchText
      [] fileName = "extensions.json" -> ExtensionsText
      [] OTHER                        -> EmptySettingsText

\* the fileName of each entry of configFiles in getConfigFiles
ListedNames == {"settings.json", "launch.json", "extensions.json"}

\* ConfigFilesProvider.getConfigFiles: config.exists of each item
getConfigFiles(folder, dir, onDisk) ==
    IF ~ folder THEN [kind |-> "empty"]
    ELSE [kind |-> "listed",
          exists |-> [name \in ListedNames |->
                        dir # "missing" /\ onDisk[name].exists]]

\* createConfigFileCommand up to its first await: the message it shows, the
\* directory and the files it leaves, and whether it refreshed the view.
\* In a directory that cannot be written, writeFileSync throws.
createConfigFile(folder, dir, onDisk, fileName) ==
    IF ~ folder
    THEN [message |-> "No workspace folder found", dir |-> dir, disk |-> onDisk,
          refreshed |-> FALSE]
    ELSE IF dir = "readOnly"
    THEN [message |-> "Failed to create file", dir |-> dir, disk |-> onDisk,
          refreshed |-> FALSE]
    ELSE [message |-> "Created",
          dir |-> "directory",
          disk |-> [onDisk EXCEPT ![fileName] = File(initialContent(fileName))],
          refreshed |-> TRUE]

\* a settings file its user wrote: {"a": 1}
UserText == <<"{", "\"", "a", "\"", ":", " ", "1", "}">>

\* how often another process writes a file of .vscode
MaxDiskChanges == 1

\* the workspaces the view is created in: no folder; a folder without
\* .vscode; a folder whose .vscode, writable or not, holds some of the files
ConfigFilesInit ==
    /\ workspaceFolder \in BOOLEAN
    /\ vscodeDir \in {"missing", "directory", "readOnly"}
    /\ disk \in [FileNames -> {NoFile, File(UserText)}]
    /\ ~ workspaceFolder => vscodeDir = "missing"
    /\ vscodeDir = "missing" => disk = [name \in FileNames |-> NoFile]
    /\ treeItems = getConfigFiles(workspaceFolder, vscodeDir, disk)
    /\ created = NotCalled
    /\ applied = <<>>
    /\ shownDocument = NotCalled
    /\ diskChanges = 0
    /\ ResolverIdle
    /\ CatalogIdle
    /\ AnalyzerIdle
    /\ ScoreIdle
    /\ PathIdle
    /\ EditorIdle

\* the document a command opened and showed
Shown(fileName) == [kind |-> "shown", fileName |-> fileName]

\* the whole of createConfigFileCommand for a file name: what
\* createConfigFile leaves, the refresh of the view, and the document shown
RunCreateConfigFile(fileName, origin, result) ==
    /\ vscodeDir' = result.dir
    /\ disk' = result.disk
    /\ treeItems' = IF result.refreshed
                    THEN getConfigFiles(workspaceFolder, result.dir, result.disk)
                    ELSE treeItems
    /\ shownDocument' = IF result.refreshed THEN Shown(fileName)
                        ELSE shownDocument
    /\ created' = [fileName |-> fileName,
                   origin |-> origin,
                   before |-> disk[fileName],
                   after |-> result.disk[fileName],
                   message |-> result.message]
    /\ UNCHANGED <<workspaceFolder, applied, diskChanges>>

\* the view asks getChildren again
Refresh ==
    /\ treeItems' = getConfigFiles(workspaceFolder, vscodeDir, disk)
    /\ UNCHANGED <<workspaceFolder, vscodeDir, disk, created, applied,
                   shownDocument, diskChanges>>
    /\ UNCHANGED <<resolverVars, catalogVars, analyzerVars, scoreVars, pathVars,
                   editorVars>>

\* an item of the view is clicked: the command of ConfigFile, which is
\* createConfigFile for an item listed as missing and openConfigFile for
\* an item listed as existing
ClickConfigFile ==
    /\ treeItems.kind = "listed"
    /\ \E name \in ListedNames :
          IF treeItems.exists[name]
          THEN /\ shownDocument' = IF vscodeDir # "missing" /\ disk[name].exists
                                   THEN Shown(name) ELSE shownDocument
               /\ UNCHANGED <<workspaceFolder, vscodeDir, disk, treeItems,
                              created, applied, diskChanges>>
          ELSE RunCreateConfigFile(name, "item",
                   createConfigFile(workspaceFolder, vscodeDir, disk, name))
    /\ UNCHANGED <<resolverVars, catalogVars, analyzerVars, scoreVars, pathVars,
                   editorVars>>

\* vscode-settings.createConfigFile is executed with a file name, from the
\* command palette, a key binding or another extension
ExecuteCreateConfigFile ==
    /\ \E name \in FileNames :
          RunCreateConfigFile(name, "command",
              createConfigFile(workspaceFolder, vscodeDir, disk, name))
    /\ UNCHANGED <<resolverVars, catalogVars, analyzerVars, scoreVars, pathVars,
                   editorVars>>

\* another process creates a file of .vscode, and .vscode where it is missing
AnotherProcessWrites ==
    /\ workspaceFolder
    /\ vscodeDir # "readOnly"
    /\ diskChanges < MaxDiskChanges
    /\ diskChanges' = diskChanges + 1
    /\ vscodeDir' = "directory"
    /\ \E name \in FileNames :
          /\ ~ disk[name].exists
          /\ disk' = [disk EXCEPT ![name] = File(UserText)]
    /\ UNCHANGED <<workspaceFolder, treeItems, created, applied, shownDocument>>
    /\ UNCHANGED <<resolverVars, catalogVars, analyzerVars, scoreVars, pathVars,
                   editorVars>>

ConfigFilesSpec ==
    ConfigFilesInit /\ [][\/ Refresh
                          \/ ClickConfigFile
                          \/ ExecuteCreateConfigFile
                          \/ AnotherProcessWrites]_vars

\* C28: a run of createConfigFile leaves a file that exists when it starts
\* with the content it has; it writes the initial content only where the
\* file is missing, whether it was started from an item of the view or
\* executed with a file name
C28_ExistingFileKept ==
    (created # NotCalled /\ created.before.exists) =>
        created.after = created.before

\* a file the view listed as missing was created by another process and
\* then overwritten by the click on its item
C28_StaleItemOverwrites ==
    /\ created # NotCalled
    /\ created.origin = "item"
    /\ created.before = File(UserText)
    /\ created.after = File(initialContent(created.fileName))

-----------------------------------------------------------------------------
(* The command vscode-settings.applyConfigTemplate of src/src/extension.ts *)

\* existingSettings: {} for a missing file and for a file JSON.parse throws
\* on, otherwise what JSON.parse returns
existingSettings(file) ==
    IF ~ file.exists THEN EmptyObject
    ELSE LET parsed == JSONparse(file.text)
         IN  IF parsed.ok THEN parsed.v ELSE EmptyObject

\* const mergedSettings = { ...existingSettings, ...template.content }
mergedSettings(file, template) == Spread(existingSettings(file), template.content)

\* the templates the command is given
Templates == {
    [name |-> "A", content |-> ObjectOf(<<"a">>, Number(2))],
    [name |-> "B", content |-> ObjectOf(<<"b">>, Number(3))],
    [name |-> "C", content |-> ObjectOf(<<"c">>, ObjectOf(<<"d">>, Number(0)))]
}

\* the texts of an existing settings.json
SettingsTexts == {
    UserText,
    <<"{", "\"", "a", "\"", ":", " ", "1", ",", " ", "\"", "c", "\"", ":", " ", "3", "}">>,   \* {"a": 1, "c": 3}
    <<"/", "/", " ", "c", "\n", "{", "\"", "a", "\"", ":", " ", "1", "}">>,   \* // c, then {"a": 1} on the next line
    <<"{", "\"", "a", "\"", ":", " ", "1", ",", "}">>,   \* {"a": 1,}
    EmptySettingsText,
    <<"[", "1", "]">>,   \* [1]
    <<>>   \* an empty file
}

\* how often the command is run
MaxApplied == 2

\* the workspaces the command runs in: no folder; a folder without .vscode;
\* a folder whose .vscode, writable or not, may hold settings.json
TemplateInit ==
    /\ workspaceFolder \in BOOLEAN
    /\ vscodeDir \in {"missing", "directory", "readOnly"}
    /\ \E file \in {NoFile} \cup {File(text) : text \in SettingsTexts} :
          disk = [name \in FileNames |->
                    IF name = "settings.json" THEN file ELSE NoFile]
    /\ ~ workspaceFolder => vscodeDir = "missing"
    /\ vscodeDir = "missing" => disk = [name \in FileNames |-> NoFile]
    /\ treeItems = getConfigFiles(workspaceFolder, vscodeDir, disk)
    /\ created = NotCalled
    /\ applied = <<>>
    /\ shownDocument = NotCalled
    /\ diskChanges = 0
    /\ ResolverIdle
    /\ CatalogIdle
    /\ AnalyzerIdle
    /\ ScoreIdle
    /\ PathIdle
    /\ EditorIdle

\* the runs that are waiting for openTextDocument
Opening == {i \in 1..Len(applied) : applied[i].pc = "openTextDocument"}

\* one run of the command up to its first await, for the settings.json it
\* reads: the merge is written, or writeFileSync throws in a directory that
\* cannot be written
RunApplyConfigTemplate(template, file) ==
    /\ Len(applied) < MaxApplied
    /\ IF ~ workspaceFolder
       THEN /\ applied' = Append(applied,
                              [template |-> template, before |-> file,
                               wrote |-> FALSE, after |-> <<>>,
                               during |-> Opening, pc |-> "noWorkspaceFolder"])
            /\ UNCHANGED <<vscodeDir, disk>>
       ELSE IF vscodeDir = "readOnly"
       THEN /\ applied' = Append(applied,
                              [template |-> template, before |-> file,
                               wrote |-> FALSE, after |-> <<>>,
                               during |-> Opening, pc |-> "failed"])
            /\ UNCHANGED <<vscodeDir, disk>>
       ELSE LET text == JSONstringifyIndented(mergedSettings(file, template))
            IN  /\ applied' = Append(applied,
                                  [template |-> template, before |-> file,
                                   wrote |-> TRUE, after |-> text,
                                   during |-> Opening, pc |-> "openTextDocument"])
                /\ vscodeDir' = "directory"
                /\ disk' = [disk EXCEPT !["settings.json"] = File(text)]
    /\ UNCHANGED <<workspaceFolder, treeItems, created, shownDocument, diskChanges>>
    /\ UNCHANGED <<resolverVars, catalogVars, analyzerVars, scoreVars, pathVars,
                   editorVars>>

\* a run whose read of settings.json happened when the oldest run still
\* waiting for its document started
ApplyConfigTemplateInterleaved(template) ==
    RunApplyConfigTemplate(template,
        IF Opening = {} THEN disk["settings.json"]
        ELSE applied[Min(Opening)].before)

\* applyConfigTemplateCommand from its start to its first await
ApplyConfigTemplate(template) ==
    RunApplyConfigTemplate(template, disk["settings.json"])

\* await vscode.workspace.openTextDocument(fileUri) of one run returns
OpenTextDocument ==
    /\ \E i \in Opening :
          applied' = [applied EXCEPT ![i].pc = "showTextDocument"]
    /\ UNCHANGED <<workspaceFolder, vscodeDir, disk, treeItems, created,
                   shownDocument, diskChanges>>
    /\ UNCHANGED <<resolverVars, catalogVars, analyzerVars, scoreVars, pathVars,
                   editorVars>>

\* await vscode.window.showTextDocument(doc) of one run returns
ShowTextDocument ==
    /\ \E i \in 1..Len(applied) :
          /\ applied[i].pc = "showTextDocument"
          /\ applied' = [applied EXCEPT ![i].pc = "done"]
    /\ shownDocument' = Shown("settings.json")
    /\ UNCHANGED <<workspaceFolder, vscodeDir, disk, treeItems, created,
                   diskChanges>>
    /\ UNCHANGED <<resolverVars, catalogVars, analyzerVars, scoreVars, pathVars,
                   editorVars>>

TemplateSpec ==
    TemplateInit /\ [][\/ \E template \in Templates : ApplyConfigTemplate(template)
                       \/ OpenTextDocument
                       \/ ShowTextDocument]_vars

\* text without the commas that only white space separates from a closing
\* brace or bracket (no modelled text holds a comma inside a string)
RECURSIVE removeTrailingCommas(_, _)
removeTrailingCommas(text, i) ==
    IF i > Len(text) THEN <<>>
    ELSE IF text[i] = "," /\ At(text, SkipJsonWs(text, i + 1)) \in {"}", "]"}
         THEN removeTrailingCommas(text, i + 1)
         ELSE <<text[i]>> \o removeTrailingCommas(text, i + 1)

\* the settings a file holds for the editor, which reads settings.json as
\* JSON with comments and trailing commas
SettingsOf(file) == JSONparse(removeTrailingCommas(cleanText(file.text), 1))

KeysOf(v) == {ObjectKeys(v)[k] : k \in 1..Len(ObjectKeys(v))}

\* run r kept every setting of the file it found that its template does not
\* name
KeptSettings(r) ==
    LET old == SettingsOf(r.before).v
        new == JSONparse(r.after)
    IN  /\ new.ok
        /\ \A key \in KeysOf(old) \ KeysOf(r.template.content) :
              /\ HasOwnProperty(new.v, key)
              /\ GetProperty(new.v, key) = GetProperty(old, key)

\* the runs that wrote over an existing settings.json holding an object
OverExisting ==
    {i \in 1..Len(applied) :
        /\ applied[i].wrote
        /\ applied[i].before.exists
        /\ SettingsOf(applied[i].before).ok
        /\ SettingsOf(applied[i].before).v.t = "object"}

\* C29: after applyConfigTemplate has written, every top-level key of the
\* settings.json it found that is not a key of the template is in the file
\* with the value it had, also where the file held comments or trailing
\* commas
C29_ExistingSettingsKept ==
    \A i \in OverExisting : KeptSettings(applied[i])

\* C29 for the files JSON.parse accepts
C29_ExistingSettingsKept_plainJSON ==
    \A i \in OverExisting :
        JSONparse(applied[i].before.text).ok => KeptSettings(applied[i])

\* the runs that started while run i was waiting for its document
StartedDuring(i) == {j \in 1..Len(applied) : i \in applied[j].during}

\* the runs that wrote before run j started
WroteBefore(j) == {i \in 1..(j - 1) : applied[i].wrote}

\* C30: runs of applyConfigTemplate that overlap lose no update: each run
\* reads the file the run before it wrote, and the file holds the keys of
\* the template of every run that wrote
C30_NoLostUpdate ==
    /\ \A j \in 1..Len(applied) :
          (applied[j].wrote /\ WroteBefore(j) # {}) =>
              applied[j].before =
                  File(applied[CHOOSE i \in WroteBefore(j) :
                                 \A k \in WroteBefore(j) : k <= i].after)
    /\ \A i \in 1..Len(applied) :
          applied[i].wrote =>
              /\ disk["settings.json"].exists
              /\ JSONparse(disk["settings.json"].text).ok
              /\ KeysOf(applied[i].template.content)
                   \subseteq KeysOf(JSONparse(disk["settings.json"].text).v)

\* templates A and B were applied to a settings.json holding key c, the
\* second while the first was waiting for its document; the file holds a, b
\* and c
C30_Witness ==
    /\ Len(applied) = 2
    /\ applied[1].template.name = "A"
    /\ applied[2].template.name = "B"
    /\ applied[1].wrote
    /\ applied[2].wrote
    /\ 2 \in StartedDuring(1)
    /\ applied[1].before.exists
    /\ KeysOf(JSONparse(disk["settings.json"].text).v) = {<<"a">>, <<"b">>, <<"c">>}

====
